---- MODULE Spec2Model ----
(***************************************************************************)
(* Kestrel: the Coder tool-use loop (coder_agent.py), the Manager request  *)
(* lifecycle (manager_agent.py), the session registry and transcript store *)
(* (session_manager.py, server.py) and the tools' path confinement         *)
(* (agent_tools.py), each as a state machine.                              *)
(***************************************************************************)
EXTENDS Integers, Sequences, FiniteSets, TLC

\* ------------------------------------------------------------------ bounds
\* CoderAgent.max_steps as configured for the runs explored
max_steps == 2
\* most tool calls carried by one LLM response
MaxCalls == 2
\* most Coder runs explored in one session
MaxRuns == 1
\* most tool executions explored in one session
MaxToolCalls == 2
\* most tasks in a plan
MaxTasks == 2
\* most coder.run calls explored in one request
MaxCoderRuns == 4
\* most record_event calls explored over all sessions
MaxRecords == 4
\* longest directory or file name, in characters
MaxNameLen == 2
\* deepest session cwd, in components below the root
MaxDepth == 1
\* most components in a path given to a tool
MaxParts == 2
\* longest content of a recorded event, in characters
MaxContentLen == 1
\* most events recorded in the transcript explored
MaxLogLen == 2
\* latest clock reading explored, in ticks
MaxClock == 2
\* clock ticks per millisecond: time.time() resolves below the millisecond
TicksPerMs == 2
\* most events in the transcript file a session is created on
MaxSeedLen == 7
\* most websocket connections made to one session
MaxConnects == 2
\* most user messages received on one websocket connection
MaxMessages == 3
\* the longest LLM summary explored, in tokens
MaxSummaryLen == 4
\* the longest summarised text explored, in tokens
MaxSourceLen == 2

VARIABLES
    \* ---- Coder run (CoderAgent.run), one session
    pc_coder,          \* position of the run's generator
    task_id,           \* the run's task id
    call_counter,      \* call_counter
    steps_remaining,   \* steps_remaining
    tool_calls,        \* the tool calls of the current response still to execute
    cur_call,          \* the call whose tool_call event was emitted, its result pending
    messages,          \* the message list sent to the LLM
    history,           \* session.history
    events,            \* every event the session's Coder runs have emitted, in order
    runs,              \* number of runs started in the session
    llm_calls,         \* number of chat_with_tools calls made in the session
    run_llm_calls,     \* per run, the number of chat_with_tools calls it made
    tool_outcome,      \* what the last _run_tool call gave: a member of ToolOutcomes
    tool_execs,        \* number of tool executions requested in the session
    supports_tool_call_messages,
    \* ---- Manager request (ManagerAgent.process_request)
    pc_mgr,            \* position of the request's generator
    plan,              \* the TaskPlan decompose_intent returned
    task_idx,          \* position in plan.tasks of the task being handled
    attempt,           \* the retry loop's attempt
    last_result,       \* last_result of _execute_task_with_retry
    completed_tasks,   \* completed_tasks
    task_results,      \* task_results
    mgr_events,        \* the events process_request has yielded, in order
    coder_invocations, \* per plan position, the number of coder.run calls
    coder_runs,        \* number of coder.run calls of the request
    attempt_log,       \* per coder.run call: the plan position, the attempt, how it ended
    \* ---- SessionManager and the websocket handlers (session_manager.py, server.py)
    sessions,          \* keys of SessionManager._sessions
    session_metadata,  \* SessionManager._session_metadata
    transcripts,       \* SessionManager._transcripts
    transcript_paths,  \* SessionManager._transcript_paths
    files,             \* the transcript files on disk, by path
    handler,           \* per session id, the position of its websocket_endpoint call
    transport,         \* per session id, the state of its websocket
    chunks,            \* per session id, whether assistant_chunks is non-empty
    created,           \* the session ids create_session has issued
    killed,            \* the session ids kill_session has removed
    records_at_kill,   \* per killed session, its events on disk when it was killed
    agent_calls,       \* per session id, the planner and agent calls made for it
    agent_calls_at_kill, \* per killed session, agent_calls when it was killed
    \* ---- one call of a path-taking tool (agent_tools.py, agent_tools_validation.py)
    tool_cwd,          \* the session cwd, as the components below the root
    path_str,          \* the path argument: absolute or not, and its components
    tool_state,        \* "ready" before the call, then the name of the tool called
    tool_error,        \* whether the call raised
    accessed,          \* the files and directories the call read, created or modified
    \* ---- one live session's transcript (SessionManager.record_event, get_transcript)
    clock,             \* the wall clock, in ticks
    log_file,          \* the lines of the transcript file, as the stored events
    log_mirror,        \* SessionManager._transcripts[session_id]
    log_calls,         \* per record_event call, the event it was given
    \* ---- a session created on an existing transcript (create_session, websocket_endpoint)
    pc_seed,           \* "before": the earlier session writes; "created"; "connected"
    seed_file,         \* the lines of the transcript file, as the stored events
    session_history,   \* session.history of the new session
    welcome_sent,      \* session_metadata[session_id]["welcome_sent"]
    connects,          \* websocket connections made to the new session
    welcome_pairs,     \* welcome + cwd event pairs sent to the new session's clients
    \* ---- the receive loop of one websocket connection (websocket_endpoint)
    received,          \* number of messages received; message n is the n-th
    pending_plan,      \* session metadata's "pending_plan"
    orch_log,          \* per received message, what the loop did with it
    \* ---- one detail request (is_detail_request, send_detail_response)
    detail_cwd,        \* the session's cwd, as the components below the root
    detail_hint,       \* path_hint: absolute or not, and its components
    detail_file,       \* the content of the file at the path, a character per position
    detail_pc,         \* "receive" before the message, "done" after the round
    detail_events,     \* the detail events recorded and sent
    detail_calls,      \* planner and coding-agent calls made in the round
    \* ---- one call of generate_summary
    source_text,       \* the text to summarise, as tokens
    sum_pc,            \* "call" before the call, "returned" or "raised" after it
    summary,           \* the summary returned, as tokens
    \* ---- projects and branches on disk (SessionManager, the /project endpoints)
    proj_dirs,         \* the branch directories that exist, each as <<project, branch>>
    proj_changed,      \* the branch directories whose working tree a merge or sync touched
    proj_registry,     \* the live sessions: session id -> cwd, as path components
    proj_issued,       \* the session ids create_session has issued
    proj_last,         \* the last operation: its name, arguments and result
    \* ---- one call of ManagerAgent.decompose_intent
    user_text,         \* the user's request
    planner_response,  \* the planner LLM's response, by what parse_plan_xml looks for
    pc_plan,           \* "call" before the call, "returned" or "raised" after it
    returned_plan      \* the TaskPlan decompose_intent returned

coderVars == <<pc_coder, task_id, call_counter, steps_remaining, tool_calls, cur_call,
               messages, history, events, runs, llm_calls, run_llm_calls, tool_outcome, tool_execs,
               supports_tool_call_messages>>

mgrVars == <<pc_mgr, plan, task_idx, attempt, last_result, completed_tasks, task_results,
             mgr_events, coder_invocations, coder_runs, attempt_log>>

sessionVars == <<sessions, session_metadata, transcripts, transcript_paths, files, handler,
                 transport, chunks, created, killed, records_at_kill, agent_calls,
                 agent_calls_at_kill>>

toolVars == <<tool_cwd, path_str, tool_state, tool_error, accessed>>

logVars == <<clock, log_file, log_mirror, log_calls>>

seedVars == <<pc_seed, seed_file, session_history, welcome_sent, connects, welcome_pairs>>

orchVars == <<received, pending_plan, orch_log>>

detailVars == <<detail_cwd, detail_hint, detail_file, detail_pc, detail_events, detail_calls>>

summaryVars == <<source_text, sum_pc, summary>>

projVars == <<proj_dirs, proj_changed, proj_registry, proj_issued, proj_last>>

plannerVars == <<user_text, planner_response, pc_plan, returned_plan>>

vars == <<coderVars, mgrVars, sessionVars, toolVars, logVars, seedVars, orchVars, detailVars, summaryVars, projVars, plannerVars>>

\* ------------------------------------------------------------ Coder: data
\* Every caller starts run() without a task id, so each run generates its own
\* (task_<uuid4>); NoTask stands for metadata that carries no task id.
NoTask == [gen |-> FALSE, n |-> 0]
GeneratedTaskId(run) == [gen |-> TRUE, n |-> run]

\* call ids: supplied by the LLM (taken to be unique: the i-th call of the session's
\* c-th response is numbered 10 * c + i), set by the tag parser ("tag_<k>"), or
\* generated as "<task_id>_call_<n>"
NoCall == [kind |-> "none", task |-> NoTask, n |-> 0]
LLMCallId(c, i) == [kind |-> "llm", task |-> NoTask, n |-> 10 * c + i]
TagCallId(k) == [kind |-> "tag", task |-> NoTask, n |-> k]
GeneratedCallId(tid, n) == [kind |-> "gen", task |-> tid, n |-> n]

\* what a structured tool call carries under "id": an id, or nothing
IdChoices == {"id", "noid"}

RECURSIVE SeqsUpTo(_, _)
SeqsUpTo(S, n) ==
    IF n = 0 THEN {<<>>}
    ELSE LET shorter == SeqsUpTo(S, n - 1)
         IN  shorter \cup {Append(s, x) : s \in {t \in shorter : Len(t) = n - 1}, x \in S}

\* _normalize_tool_calls: the structured calls, each kept with its own id
NormalizeToolCalls(ids, c) ==
    [i \in 1..Len(ids) |-> [id |-> IF ids[i] = "id" THEN LLMCallId(c, i) ELSE NoCall]]

\* _parse_tool_tags: the k-th parsed block gets id "tag_<k>", k counted from 0
ParseToolTags(n) == [i \in 1..n |-> [id |-> TagCallId(i - 1)]]

\* An LLM response after normalisation: think block or not, the content left after
\* stripping ("" | "text" | "result": text holding a <result> block), and its calls
\* as the response encodes them.
ContentKinds == {"", "text", "result"}
Responses(maxn, n_llm, thinks) ==
    { [think |-> t, content |-> c, calls |-> NormalizeToolCalls(ids, n_llm)] :
          t \in thinks, c \in ContentKinds, ids \in SeqsUpTo(IdChoices, maxn) }
    \cup
    { [think |-> t, content |-> c, calls |-> ParseToolTags(n)] :
          t \in thinks, c \in ContentKinds, n \in 1..maxn }

\* what executing a tool gives: a result with exit code 0 or none, a result with a
\* non-zero exit code (a timeout is -1), or an exception (unknown tool, bad path)
ToolOutcomes == {"ok", "nonzero", "raise"}

\* An emitted event: its type, metadata.task_id, metadata.call_id, metadata.success
\* ("na" when absent), whether metadata.error is set, and the run that emitted it.
Event(type, tid, cid, success, run) ==
    [type |-> type, task_id |-> tid, call_id |-> cid, success |-> success,
     error |-> FALSE, run |-> run]

ErrorEvent(type, tid, cid, run) ==
    [type |-> type, task_id |-> tid, call_id |-> cid, success |-> "false",
     error |-> TRUE, run |-> run]

Msg(role, kind, cid) == [role |-> role, kind |-> kind, call_id |-> cid]

Min(a, b) == IF a < b THEN a ELSE b

\* The think block of a response is explored on the first response of each run; the
\* later responses of the run carry none.
ThinkChoices == IF runs > 0 /\ run_llm_calls[runs] = 0 THEN BOOLEAN ELSE {FALSE}

\* ---------------------------------------------------------- Coder: actions
\* run(): the code before the loop
StartRun ==
    /\ pc_coder \in {"idle", "done", "raised"}
    /\ runs < MaxRuns
    /\ runs' = runs + 1
    /\ task_id' = GeneratedTaskId(runs + 1)
    /\ call_counter' = 0
    /\ history' = Append(history, Msg("user", "prompt", NoCall))
    /\ messages' = <<Msg("system", "coder_system_prompt", NoCall)>> \o history'
    /\ steps_remaining' = max_steps
    /\ tool_calls' = <<>>
    /\ cur_call' = NoCall
    /\ pc_coder' = "llm"
    /\ run_llm_calls' = Append(run_llm_calls, 0)
    /\ UNCHANGED <<events, llm_calls, tool_execs, supports_tool_call_messages,
                   tool_outcome>>

\* the events one response gives before any tool runs
ResponseEvents(resp, tid, run) ==
    (IF resp.think THEN <<Event("planning", tid, NoCall, "na", run)>> ELSE <<>>)
    \o (IF resp.content # "" THEN <<Event("assistant", NoTask, NoCall, "na", run)>> ELSE <<>>)
    \o (IF resp.calls # <<>> THEN <<>>
        ELSE IF resp.content = "result" THEN <<Event("result", tid, NoCall, "na", run)>>
        ELSE IF resp.content = "" THEN <<Event("system", tid, NoCall, "na", run)>>
        ELSE <<>>)

\* the assistant message appended to the message list
AssistantMessage(resp, supports) ==
    IF resp.content # "" \/ resp.calls # <<>>
    THEN <<Msg("assistant",
               IF resp.calls # <<>> /\ supports THEN "with_tool_calls" ELSE "content",
               NoCall)>>
    ELSE <<>>

\* one loop iteration up to the tool loop: chat_with_tools answered
LLMRespond(resp) ==
    /\ pc_coder = "llm"
    /\ steps_remaining > 0
    /\ llm_calls' = llm_calls + 1
    /\ run_llm_calls' = [run_llm_calls EXCEPT ![runs] = @ + 1]
    /\ events' = events \o ResponseEvents(resp, task_id, runs)
    /\ messages' = messages \o AssistantMessage(resp, supports_tool_call_messages)
    /\ history' = IF resp.content # ""
                  THEN Append(history, Msg("assistant", "content", NoCall))
                  ELSE history
    /\ tool_calls' = resp.calls
    /\ pc_coder' = IF resp.calls = <<>> THEN "done" ELSE "tools"
    /\ UNCHANGED <<task_id, call_counter, steps_remaining, cur_call, runs, tool_execs,
                   supports_tool_call_messages,
                   tool_outcome>>

\* chat_with_tools raises (HTTP error, network error, unsupported provider): run()
\* has no handler, the exception leaves the generator
LLMRaise ==
    /\ pc_coder = "llm"
    /\ steps_remaining > 0
    /\ llm_calls' = llm_calls + 1
    /\ run_llm_calls' = [run_llm_calls EXCEPT ![runs] = @ + 1]
    /\ pc_coder' = "raised"
    /\ UNCHANGED <<task_id, call_counter, steps_remaining, tool_calls, cur_call, messages,
                   history, events, runs, tool_execs, supports_tool_call_messages,
                   tool_outcome>>

\* call_id = call.get("id") or f"{task_id}_call_{call_counter}"
CallIdFor(call, tid, counter) ==
    IF call.id # NoCall THEN call.id ELSE GeneratedCallId(tid, counter)

\* the tool loop: the tool_call event of the next call
EmitToolCall ==
    /\ pc_coder = "tools"
    /\ tool_calls # <<>>
    /\ call_counter' = call_counter + 1
    /\ cur_call' = CallIdFor(Head(tool_calls), task_id, call_counter + 1)
    /\ events' = Append(events, Event("tool_call", task_id, cur_call', "na", runs))
    /\ tool_execs' = tool_execs + 1
    /\ pc_coder' = "exec"
    /\ UNCHANGED <<task_id, steps_remaining, tool_calls, messages, history, runs, llm_calls,
                   run_llm_calls, supports_tool_call_messages,
                   tool_outcome>>

\* a tool exception that is not answered with a tool_result event
ToolResultEventsLostOnRaise(outcome, tid, cid, run) ==
    IF outcome = "raise"
    THEN <<>>
    ELSE <<Event("tool_result", tid, cid, IF outcome = "ok" THEN "true" ELSE "false", run)>>

\* a non-zero exit code that is reported as a success
ToolResultEventsNonzeroSucceeds(outcome, tid, cid, run) ==
    IF outcome = "raise"
    THEN <<ErrorEvent("tool_result", tid, cid, run)>>
    ELSE <<Event("tool_result", tid, cid, "true", run)>>

\* the events after _run_tool returned or raised
ToolResultEvents(outcome, tid, cid, run) ==
    IF outcome = "raise"
    THEN <<ErrorEvent("tool_result", tid, cid, run)>>
    ELSE <<Event("tool_result", tid, cid, IF outcome = "ok" THEN "true" ELSE "false", run)>>

\* the message appended for the tool's outcome
ToolMessage(outcome, supports, llm_id) ==
    IF outcome = "raise" THEN Msg("system", "tool_error", NoCall)
    ELSE IF supports THEN Msg("tool", "tool_result", llm_id)
    ELSE Msg("system", "tool_result", NoCall)

\* an exhausted step budget that ends the run silently
StepLimitEventsMissing(remaining, tid, run) == <<>>

\* the error event of an exhausted step budget
StepLimitEvents(remaining, tid, run) ==
    IF remaining = 0 THEN <<Event("error", tid, NoCall, "na", run)>> ELSE <<>>

\* the tool runs; after the last call of the response the step counter is decremented
\* and the loop either awaits the next response or ends with the error event
ToolResult(outcome) ==
    /\ pc_coder = "exec"
    /\ LET last == Len(tool_calls) = 1
           remaining == IF last THEN steps_remaining - 1 ELSE steps_remaining
       IN  /\ events' = events \o ToolResultEvents(outcome, task_id, cur_call, runs)
                        \o (IF last THEN StepLimitEvents(remaining, task_id, runs) ELSE <<>>)
           /\ messages' = Append(messages,
                                 ToolMessage(outcome, supports_tool_call_messages,
                                             Head(tool_calls).id))
           /\ history' = IF outcome = "raise" THEN history
                         ELSE Append(history, Msg("system", "tool_result", NoCall))
           /\ steps_remaining' = remaining
           /\ tool_calls' = Tail(tool_calls)
           /\ pc_coder' = IF ~last THEN "tools"
                          ELSE IF remaining = 0 THEN "done" ELSE "llm"
    /\ cur_call' = NoCall
    /\ tool_outcome' = outcome
    /\ UNCHANGED <<task_id, call_counter, runs, llm_calls, run_llm_calls, tool_execs,
                   supports_tool_call_messages>>

InitCoder ==
    /\ pc_coder = "idle"
    /\ task_id = NoTask
    /\ call_counter = 0
    /\ steps_remaining = 0
    /\ tool_calls = <<>>
    /\ cur_call = NoCall
    /\ messages = <<>>
    /\ history = <<>>
    /\ events = <<>>
    /\ runs = 0
    /\ llm_calls = 0
    /\ run_llm_calls = <<>>
    /\ tool_outcome = "none"
    /\ tool_execs = 0
    /\ supports_tool_call_messages \in BOOLEAN

\* ------------------------------------------------------- Manager: data
\* ManagerAgent.max_retries (its default)
max_retries == 2

\* Task ids are the digit strings of <task id="...">; 1..MaxTasks stand for "1", "2", ...
\* A task: its id, its dependencies and its status, PENDING by the dataclass default.
TaskStatus == {"PENDING", "IN_PROGRESS", "COMPLETED", "FAILED", "BLOCKED"}
Tasks == [id : 1..MaxTasks, dependencies : SUBSET (1..MaxTasks), status : {"PENDING"}]

\* parse_plan_xml: the plan of an LLM response holding a <plan> block: its <task>
\* blocks in document order and its <clarify> text, if any and not blank. The plans
\* explored number their tasks 1, 2, ... as the planner prompt prescribes; a task may
\* depend on any ids, its own, later ones and ids of no task included.
ParsedPlans ==
    { [tasks |-> ts, needs_clarification |-> c] :
          ts \in { t \in SeqsUpTo(Tasks, MaxTasks) : \A i \in 1..Len(t) : t[i].id = i },
          c \in BOOLEAN }

\* decompose_intent's fallback when the response holds no <plan> block
FallbackPlan ==
    [tasks |-> <<[id |-> 1, dependencies |-> {}, status |-> "PENDING"]>>,
     needs_clarification |-> FALSE]

NoPlan == [tasks |-> <<>>, needs_clarification |-> FALSE]

\* What one coder.run gives the Manager: the joined assistant output is a <result>
\* block with status success, partial or failed, or text without a block that does
\* or does not mention "error"/"failed"; or no assistant output at all, the run
\* having used up its steps on tool calls; or the run raises (the LLM call failed).
CoderOutputs == {"success", "partial", "failed", "text_ok", "text_error", "step_limit"}

\* the Coder's events of such a run, by type
CoderRunEvents(output) ==
    IF output \in {"success", "partial", "failed"} THEN <<"assistant", "result">>
    ELSE IF output = "step_limit" THEN <<"tool_call", "tool_result", "error">>
    ELSE <<"assistant">>

\* parse_result_xml: the status of the <result> block, "none" without a block
parse_result_xml(output) ==
    CASE output = "success" -> "COMPLETED"
      [] output = "partial" -> "IN_PROGRESS"
      [] output = "failed"  -> "FAILED"
      [] OTHER              -> "none"

\* the path lists explored for the <files> element of a <result> block
FileLists == {<<>>, <<"a.py">>, <<"a.py", "b.py">>}

\* parse_result_xml's files_changed for each output: the <files> element split at
\* commas; a result inferred from output without a block has none
FilesChoices(output) ==
    IF parse_result_xml(output) # "none" THEN FileLists ELSE {<<>>}

\* the TaskResult kept in task_results
TaskResult(status, files_changed) == [status |-> status, files_changed |-> files_changed]

\* the result of one attempt: parsed, or inferred from the output
AttemptResult(output) ==
    IF parse_result_xml(output) # "none" THEN parse_result_xml(output)
    ELSE IF output = "text_error" THEN "FAILED"
    ELSE "COMPLETED"

MgrEvent(type, tid, att, idx) ==
    [type |-> type, task_id |-> tid, attempt |-> att, idx |-> idx, completed |-> 0, total |-> 0,
     files_changed |-> {}]

\* list(set(all_files)): the paths of all_files without duplicates, in no fixed order
SetOf(all_files) == {all_files[i] : i \in 1..Len(all_files)}

SummaryEvent(completed, total, all_files) ==
    [type |-> "summary", task_id |-> 0, attempt |-> 0, idx |-> 0,
     completed |-> completed, total |-> total, files_changed |-> SetOf(all_files)]

\* ---------------------------------------------------- Manager: actions
\* process_request up to its first yield: the "manager" status event
ProcessRequest ==
    /\ pc_mgr = "idle"
    /\ mgr_events' = Append(mgr_events, MgrEvent("manager", 0, 0, 0))
    /\ pc_mgr' = "decompose"
    /\ UNCHANGED <<plan, task_idx, attempt, last_result, completed_tasks, task_results,
                   coder_invocations, coder_runs, attempt_log>>

\* a clarification question honoured only when the plan has no tasks
NeedsClarificationOnlyWithoutTasks(p) == p.needs_clarification /\ p.tasks = <<>>

\* if plan.needs_clarification
NeedsClarification(p) == p.needs_clarification

\* decompose_intent returned p: the clarify event and return, or the plan event
Decompose(p) ==
    /\ pc_mgr = "decompose"
    /\ plan' = p
    /\ IF NeedsClarification(p)
       THEN /\ mgr_events' = Append(mgr_events, MgrEvent("clarify", 0, 0, 0))
            /\ pc_mgr' = "done"
       ELSE /\ mgr_events' = Append(mgr_events, MgrEvent("plan", 0, 0, 0))
            /\ pc_mgr' = "tasks"
    /\ task_idx' = 1
    /\ UNCHANGED <<attempt, last_result, completed_tasks, task_results, coder_invocations,
                   coder_runs, attempt_log>>

\* the planner's LLM call raises: decompose_intent and process_request have no handler
DecomposeRaise ==
    /\ pc_mgr = "decompose"
    /\ pc_mgr' = "raised"
    /\ UNCHANGED <<plan, task_idx, attempt, last_result, completed_tasks, task_results,
                   mgr_events, coder_invocations, coder_runs, attempt_log>>

InSeq(x, s) == \E i \in 1..Len(s) : s[i] = x

\* a dependency check that looks only at dependencies on earlier ids
MissingDepsEarlierOnly(task, completed) ==
    {d \in task.dependencies : d < task.id /\ ~InSeq(d, completed)}

\* missing_deps = [d for d in task.dependencies if d not in completed_tasks]
MissingDeps(task, completed) == {d \in task.dependencies : ~InSeq(d, completed)}

\* the task loop reaches a task with missing dependencies: the skip event, continue
SkipTask ==
    /\ pc_mgr = "tasks"
    /\ task_idx <= Len(plan.tasks)
    /\ MissingDeps(plan.tasks[task_idx], completed_tasks) # {}
    /\ mgr_events' = Append(mgr_events, MgrEvent("system", 0, 0, task_idx))
    /\ task_idx' = task_idx + 1
    /\ UNCHANGED <<pc_mgr, plan, attempt, last_result, completed_tasks, task_results,
                   coder_invocations, coder_runs, attempt_log>>

\* the task loop reaches a task whose dependencies are met: task_start
StartTask ==
    /\ pc_mgr = "tasks"
    /\ task_idx <= Len(plan.tasks)
    /\ MissingDeps(plan.tasks[task_idx], completed_tasks) = {}
    /\ mgr_events' = Append(mgr_events,
                            MgrEvent("task_start", plan.tasks[task_idx].id, 0, task_idx))
    /\ attempt' = 0
    /\ last_result' = "none"
    /\ pc_mgr' = "attempt"
    /\ UNCHANGED <<plan, task_idx, completed_tasks, task_results, coder_invocations,
                   coder_runs, attempt_log>>

\* a retry loop that yields task_start after the Coder's events instead of before
ForwardedBeforeStart(output, tid, att, idx) ==
    [i \in 1..Len(CoderRunEvents(output)) |->
        MgrEvent(CoderRunEvents(output)[i], tid, att + 1, idx)]
    \o <<MgrEvent("task_start", tid, 0, idx)>>

\* a retry loop that keeps the assistant events for the result and does not yield them
ForwardedWithoutAssistant(output, tid, att, idx) ==
    LET kept == SelectSeq(CoderRunEvents(output), LAMBDA type : type # "assistant")
    IN  [i \in 1..Len(kept) |-> MgrEvent(kept[i], tid, att + 1, idx)]

\* the Coder's events as the retry loop yields them: task_id and attempt set
Forwarded(output, tid, att, idx) ==
    [i \in 1..Len(CoderRunEvents(output)) |->
        MgrEvent(CoderRunEvents(output)[i], tid, att + 1, idx)]

\* a retry loop that goes round once too often
RetriesOffByOne(result, att) == result # "COMPLETED" /\ att <= max_retries

\* whether the retry loop goes round again after an attempt with this result
Retries(result, att) == result # "COMPLETED" /\ att < max_retries

\* the event that closes a task: task_complete or task_failed
TaskEndEvent(result, tid, idx) ==
    IF result = "COMPLETED" THEN MgrEvent("task_complete", tid, 0, idx)
    ELSE MgrEvent("task_failed", tid, 0, idx)

\* one attempt of _execute_task_with_retry: coder.run, its events forwarded, its
\* result parsed; then the next attempt, or the task's result back in
\* process_request with task_complete or task_failed
CoderAttempt(output, files_changed) ==
    /\ pc_mgr = "attempt"
    /\ coder_runs < MaxCoderRuns
    /\ LET task == plan.tasks[task_idx]
           result == AttemptResult(output)
       IN  /\ coder_invocations' =
                  [coder_invocations EXCEPT ![task_idx] = coder_invocations[task_idx] + 1]
           /\ coder_runs' = coder_runs + 1
           /\ attempt_log' = Append(attempt_log,
                                    [idx |-> task_idx, attempt |-> attempt + 1,
                                     status |-> result, events |-> CoderRunEvents(output)])
           /\ IF Retries(result, attempt)
              THEN /\ mgr_events' = mgr_events \o Forwarded(output, task.id, attempt, task_idx)
                   /\ attempt' = attempt + 1
                   /\ last_result' = result
                   /\ UNCHANGED <<pc_mgr, task_idx, completed_tasks, task_results>>
              ELSE /\ mgr_events' = (mgr_events \o Forwarded(output, task.id, attempt, task_idx))
                                    \o <<TaskEndEvent(result, task.id, task_idx)>>
                   /\ task_results' =
                          [task_results EXCEPT ![task.id] = TaskResult(result, files_changed)]
                   /\ completed_tasks' = IF result = "COMPLETED"
                                         THEN Append(completed_tasks, task.id)
                                         ELSE completed_tasks
                   /\ last_result' = result
                   /\ task_idx' = task_idx + 1
                   /\ pc_mgr' = "tasks"
                   /\ UNCHANGED attempt
    /\ UNCHANGED plan

\* coder.run raises (its LLM call failed): neither the retry loop nor process_request
\* has a handler, the exception leaves the request
CoderRaise ==
    /\ pc_mgr = "attempt"
    /\ coder_runs < MaxCoderRuns
    /\ coder_invocations' =
           [coder_invocations EXCEPT ![task_idx] = coder_invocations[task_idx] + 1]
    /\ coder_runs' = coder_runs + 1
    /\ attempt_log' = Append(attempt_log,
                             [idx |-> task_idx, attempt |-> attempt + 1, status |-> "raised",
                              events |-> <<>>])
    /\ pc_mgr' = "raised"
    /\ UNCHANGED <<plan, task_idx, attempt, last_result, completed_tasks, task_results,
                   mgr_events>>

\* for r in task_results.values(): all_files.extend(r.files_changed)
RECURSIVE AllFiles(_, _)
AllFiles(results, n) ==
    IF n = 0 THEN <<>> ELSE AllFiles(results, n - 1) \o results[n].files_changed

\* after the last task: the summary event
Summary ==
    /\ pc_mgr = "tasks"
    /\ task_idx > Len(plan.tasks)
    /\ mgr_events' = Append(mgr_events,
                            SummaryEvent(Len(completed_tasks), Len(plan.tasks),
                                         AllFiles(task_results, MaxTasks + 1)))
    /\ pc_mgr' = "done"
    /\ UNCHANGED <<plan, task_idx, attempt, last_result, completed_tasks, task_results,
                   coder_invocations, coder_runs, attempt_log>>

InitManager ==
    /\ pc_mgr = "idle"
    /\ plan = NoPlan
    /\ task_idx = 0
    /\ attempt = 0
    /\ last_result = "none"
    /\ completed_tasks = <<>>
    /\ task_results = [t \in 1..(MaxTasks + 1) |-> TaskResult("none", <<>>)]
    /\ mgr_events = <<>>
    /\ coder_invocations = [i \in 1..(MaxTasks + 1) |-> 0]
    /\ coder_runs = 0
    /\ attempt_log = <<>>

\* ------------------------------------------------------- sessions: data
\* the session ids create_session can issue (uuid4 strings, never reused)
SessionIds == {"s1", "s2"}

\* the branch directory a session is created on; NoBranch: a cwd outside any project
Branches == {"main"}

NoBranch == "none"

\* SessionManager._build_transcript_path: <project_root>/.kestrel/<branch>.jsonl for a
\* session of a project, sessions_dir/<session_id>.jsonl otherwise
build_transcript_path(branch_name, session_id) ==
    IF branch_name # NoBranch
    THEN [dir |-> ".kestrel", file |-> branch_name]
    ELSE [dir |-> "sessions_dir", file |-> session_id]

Paths == {build_transcript_path(b, s) : b \in Branches \cup {NoBranch}, s \in SessionIds}

\* d[k] = v on a dict
Put(d, k, v) == [x \in DOMAIN d \cup {k} |-> IF x = k THEN v ELSE d[x]]

\* del d[k] if k in d
Del(d, k) == [x \in DOMAIN d \ {k} |-> d[x]]

\* make_event, as stored: its type and the session id it was recorded for
StoredEvent(type, sid) == [type |-> type, sid |-> sid]

\* the events on disk recorded for a session, over all files
RECURSIVE RecordsIn(_, _)
RecordsIn(ps, sid) ==
    IF ps = {} THEN 0
    ELSE LET p == CHOOSE q \in ps : TRUE
         IN  Cardinality({i \in 1..Len(files[p]) : files[p][i].sid = sid})
                 + RecordsIn(ps \ {p}, sid)

RecordsOnDisk(sid) == RecordsIn(Paths, sid)

RECURSIVE TotalRecordsIn(_)
TotalRecordsIn(ps) ==
    IF ps = {} THEN 0
    ELSE LET p == CHOOSE q \in ps : TRUE IN Len(files[p]) + TotalRecordsIn(ps \ {p})

\* ---------------------------------------------------- sessions: actions
\* a record_event that opens the transcript file for writing instead of appending
record_event_truncating(session_id, type) ==
    LET known == session_id \in DOMAIN transcripts
        branch_name == IF session_id \in DOMAIN session_metadata
                       THEN session_metadata[session_id].branch_name
                       ELSE NoBranch
        lists == IF known THEN transcripts ELSE Put(transcripts, session_id, <<>>)
        paths == IF known THEN transcript_paths
                 ELSE Put(transcript_paths, session_id,
                          build_transcript_path(branch_name, session_id))
        ev == StoredEvent(type, session_id)
    IN  /\ transcripts' = [lists EXCEPT ![session_id] = Append(@, ev)]
        /\ transcript_paths' = paths
        /\ files' = IF session_id \in DOMAIN paths
                    THEN [files EXCEPT ![paths[session_id]] = <<ev>>]
                    ELSE files

\* SessionManager.record_event: a session id without a transcript gets a new list and
\* a path built from whatever metadata is left; the event is appended to the list and
\* to the file
record_event(session_id, type) ==
    LET known == session_id \in DOMAIN transcripts
        branch_name == IF session_id \in DOMAIN session_metadata
                       THEN session_metadata[session_id].branch_name
                       ELSE NoBranch
        lists == IF known THEN transcripts ELSE Put(transcripts, session_id, <<>>)
        paths == IF known THEN transcript_paths
                 ELSE Put(transcript_paths, session_id,
                          build_transcript_path(branch_name, session_id))
        ev == StoredEvent(type, session_id)
    IN  /\ transcripts' = [lists EXCEPT ![session_id] = Append(@, ev)]
        /\ transcript_paths' = paths
        /\ files' = IF session_id \in DOMAIN paths
                    THEN [files EXCEPT ![paths[session_id]] = Append(@, ev)]
                    ELSE files

\* SessionManager.create_session: registers the session, its metadata, an empty
\* transcript list and its transcript path
create_session(sid, branch_name) ==
    /\ sid \notin created
    /\ created' = created \cup {sid}
    /\ sessions' = sessions \cup {sid}
    /\ session_metadata' = Put(session_metadata, sid, [branch_name |-> branch_name])
    /\ transcripts' = Put(transcripts, sid, <<>>)
    /\ transcript_paths' = Put(transcript_paths, sid, build_transcript_path(branch_name, sid))
    /\ UNCHANGED <<files, handler, transport, chunks, killed, records_at_kill, agent_calls,
                   agent_calls_at_kill>>

\* DELETE /session/{id} -> SessionManager.kill_session: the session id is deleted from
\* the four dicts; nothing else is touched
kill_session(sid) ==
    /\ sid \in sessions
    /\ sessions' = sessions \ {sid}
    /\ session_metadata' = Del(session_metadata, sid)
    /\ transcripts' = Del(transcripts, sid)
    /\ transcript_paths' = Del(transcript_paths, sid)
    /\ killed' = killed \cup {sid}
    /\ records_at_kill' = [records_at_kill EXCEPT ![sid] = RecordsOnDisk(sid)]
    /\ agent_calls_at_kill' = [agent_calls_at_kill EXCEPT ![sid] = agent_calls[sid]]
    /\ UNCHANGED <<files, handler, transport, chunks, created, agent_calls>>

\* what a handler step leaves alone besides the transcript store
HandlerFrame == UNCHANGED <<sessions, session_metadata, created, killed, records_at_kill,
                            agent_calls_at_kill>>

\* websocket_endpoint is called: the session is looked up once, here
Connect(sid) ==
    /\ handler[sid] = "none"
    /\ IF sid \in sessions
       THEN /\ handler' = [handler EXCEPT ![sid] = "accepted"]
            /\ transport' = [transport EXCEPT ![sid] = "open"]
       ELSE /\ handler' = [handler EXCEPT ![sid] = "returned"]
            /\ transport' = [transport EXCEPT ![sid] = "closed"]
    /\ UNCHANGED <<transcripts, transcript_paths, files, chunks, agent_calls>>
    /\ HandlerFrame

\* the welcome event, then the working-directory event, each recorded and sent
Welcome(sid) ==
    /\ handler[sid] \in {"accepted", "welcomed"}
    /\ TotalRecordsIn(Paths) < MaxRecords
    /\ record_event(sid, "system")
    /\ handler' = [handler EXCEPT ![sid] = IF @ = "accepted" THEN "welcomed" ELSE "receive"]
    /\ UNCHANGED <<transport, chunks, agent_calls>>
    /\ HandlerFrame

\* the loop's receive_text returned a message: the user event is recorded and the
\* planner is called
Receive(sid) ==
    /\ handler[sid] = "receive"
    /\ transport[sid] = "open"
    /\ TotalRecordsIn(Paths) < MaxRecords
    /\ record_event(sid, "user")
    /\ handler' = [handler EXCEPT ![sid] = "plan"]
    /\ agent_calls' = [agent_calls EXCEPT ![sid] = @ + 1]
    /\ UNCHANGED <<transport, chunks>>
    /\ HandlerFrame

\* what orchestrator_plan's answer leads to
Decisions == {"clarify", "plan", "dispatch"}

\* orchestrator_plan returned: a clarify or plan decision is recorded, sent and the
\* loop continues; otherwise the prompt goes to the agent through handle_goose_stream
PlanReply(sid, decision) ==
    /\ handler[sid] = "plan"
    /\ IF decision = "dispatch"
       THEN /\ handler' = [handler EXCEPT ![sid] = "stream"]
            /\ chunks' = [chunks EXCEPT ![sid] = FALSE]
            /\ agent_calls' = [agent_calls EXCEPT ![sid] = @ + 1]
            /\ UNCHANGED <<transcripts, transcript_paths, files>>
       ELSE /\ record_event(sid, "assistant")
            /\ handler' = [handler EXCEPT ![sid] = "receive"]
            /\ UNCHANGED <<chunks, agent_calls>>
    /\ UNCHANGED transport
    /\ HandlerFrame

\* stream_reply yielded a message of the agent: recorded and sent
StreamEvent(sid) ==
    /\ handler[sid] = "stream"
    /\ TotalRecordsIn(Paths) < MaxRecords
    /\ record_event(sid, "assistant")
    /\ chunks' = [chunks EXCEPT ![sid] = TRUE]
    /\ agent_calls' = [agent_calls EXCEPT ![sid] = @ + 1]
    /\ UNCHANGED <<handler, transport>>
    /\ HandlerFrame

\* stream_reply is exhausted: with assistant text the summarizer is called
StreamEnd(sid) ==
    /\ handler[sid] = "stream"
    /\ handler' = [handler EXCEPT ![sid] = IF chunks[sid] THEN "summary" ELSE "receive"]
    /\ agent_calls' = [agent_calls EXCEPT ![sid] = IF chunks[sid] THEN @ + 1 ELSE @]
    /\ UNCHANGED <<transcripts, transcript_paths, files, transport, chunks>>
    /\ HandlerFrame

\* generate_summary returned (the summary event, then generate_recap), generate_recap
\* returned (the recap event), or either raised (the 'Summary failed' system event)
SummaryEvents(sid, ok) ==
    /\ handler[sid] \in {"summary", "recap"}
    /\ record_event(sid, IF ~ok THEN "system"
                         ELSE IF handler[sid] = "summary" THEN "summary" ELSE "recap")
    /\ handler' = [handler EXCEPT ![sid] =
                      IF ok /\ @ = "summary" THEN "recap" ELSE "receive"]
    /\ agent_calls' = [agent_calls EXCEPT ![sid] =
                          IF ok /\ handler[sid] = "summary" THEN @ + 1 ELSE @]
    /\ UNCHANGED <<transport, chunks>>
    /\ HandlerFrame

\* receive_text raises WebSocketDisconnect: the client closed the websocket
Disconnect(sid) ==
    /\ handler[sid] = "receive"
    /\ transport[sid] = "open"
    /\ handler' = [handler EXCEPT ![sid] = "returned"]
    /\ transport' = [transport EXCEPT ![sid] = "closed"]
    /\ UNCHANGED <<transcripts, transcript_paths, files, chunks, agent_calls>>
    /\ HandlerFrame

InitSessions ==
    /\ sessions = {}
    /\ session_metadata = <<>>
    /\ transcripts = <<>>
    /\ transcript_paths = <<>>
    /\ files = [p \in Paths |-> <<>>]
    /\ handler = [s \in SessionIds |-> "none"]
    /\ transport = [s \in SessionIds |-> "none"]
    /\ chunks = [s \in SessionIds |-> FALSE]
    /\ created = {}
    /\ killed = {}
    /\ records_at_kill = [s \in SessionIds |-> 0]
    /\ agent_calls = [s \in SessionIds |-> 0]
    /\ agent_calls_at_kill = [s \in SessionIds |-> 0]

\* ---------------------------------------------------------- tools: data
\* the characters of a name
Alphabet == {"a"}

\* directory and file names: non-empty strings, as sequences of characters
Names == UNION {[1..n -> Alphabet] : n \in 1..MaxNameLen}

Dot == <<".">>

DotDot == <<".", ".">>

\* a normalised absolute path: its components below the root
CwdChoices == UNION {[1..n -> Names] : n \in 1..MaxDepth}

\* a path argument: absolute or relative, its components names, "." or ".."
PathChoices ==
    [abs : BOOLEAN, parts : UNION {[1..n -> Names \cup {Dot, DotDot}] : n \in 0..MaxParts}]

\* Path.resolve() of base joined with parts, without symlinks: "." is dropped and ".."
\* removes the last component (the root is its own parent)
RECURSIVE resolve(_, _)
resolve(base, parts) ==
    IF parts = <<>> THEN base
    ELSE LET h == Head(parts)
             next == IF h = Dot THEN base
                     ELSE IF h = DotDot
                          THEN IF base = <<>> THEN base ELSE SubSeq(base, 1, Len(base) - 1)
                          ELSE Append(base, h)
         IN  resolve(next, Tail(parts))

\* str(path): "/" for the root, otherwise "/" and the name for every component
RECURSIVE JoinParts(_)
JoinParts(p) == IF p = <<>> THEN <<>> ELSE <<"/">> \o Head(p) \o JoinParts(Tail(p))

str(p) == IF p = <<>> THEN <<"/">> ELSE JoinParts(p)

\* s.startswith(prefix), on strings
startswith(s, prefix) == Len(prefix) <= Len(s) /\ SubSeq(s, 1, Len(prefix)) = prefix

\* _resolve_path: ValueError for an empty path and for a candidate whose string does
\* not start with the cwd's string, otherwise the candidate
resolve_path(cwd, p) ==
    LET cwd_path == resolve(<<>>, cwd)
        candidate == IF p.abs THEN resolve(<<>>, p.parts) ELSE resolve(cwd_path, p.parts)
    IN  IF ~p.abs /\ p.parts = <<>> THEN [ok |-> FALSE, path |-> <<>>]
        ELSE IF ~startswith(str(candidate), str(cwd_path)) THEN [ok |-> FALSE, path |-> <<>>]
        ELSE [ok |-> TRUE, path |-> candidate]

\* the file tools: what each does to the resolved path
FileTools == {"list_dir", "read_file", "write_file", "append_file"}

\* -------------------------------------------------------- tools: actions
\* list_dir, read_file, write_file, append_file: _resolve_path first; the reading
\* tools raise when the path does not exist, the writing tools create or modify it
FileTool(tool, exists) ==
    /\ tool_state = "ready"
    /\ tool_state' = tool
    /\ LET r == resolve_path(tool_cwd, path_str)
           reads == tool \in {"list_dir", "read_file"}
       IN  IF ~r.ok \/ (reads /\ ~exists)
           THEN tool_error' = TRUE /\ accessed' = {}
           ELSE /\ tool_error' = FALSE
                /\ accessed' = {[op |-> IF reads THEN "read" ELSE "write", path |-> r.path]}
    /\ UNCHANGED <<tool_cwd, path_str>>

InitTools ==
    /\ tool_cwd = <<<<"a">>>>
    /\ path_str = [abs |-> FALSE, parts |-> <<>>]
    /\ tool_state = "ready"
    /\ tool_error = FALSE
    /\ accessed = {}

\* ------------------------------------------------------ transcript: data
\* the characters of an event's content: a newline (one byte in UTF-8) and an
\* accented letter (two bytes)
ContentAlphabet == {"\n", "e'"}

\* strings, as sequences of characters
Contents == UNION {[1..n -> ContentAlphabet] : n \in 0..MaxContentLen}

\* str.encode("utf-8") of one character
Utf8Char(c) == IF c = "\n" THEN <<10>> ELSE <<195, 169>>

RECURSIVE Utf8Encode(_)
Utf8Encode(str_) == IF str_ = <<>> THEN <<>> ELSE Utf8Char(Head(str_)) \o Utf8Encode(Tail(str_))

\* bytes.decode("utf-8"): the string, or Undecodable when the bytes are not UTF-8 of
\* the alphabet
Undecodable == <<"?">>

RECURSIVE Utf8Decode(_)
Utf8Decode(bytes) ==
    IF bytes = <<>> THEN <<>>
    ELSE LET b == Head(bytes)
             one == IF b = 10 THEN "\n" ELSE "?"
         IN  IF one # "?"
             THEN LET rest == Utf8Decode(Tail(bytes))
                  IN  IF rest = Undecodable THEN Undecodable ELSE <<one>> \o rest
             ELSE IF b = 195 /\ Len(bytes) >= 2 /\ bytes[2] = 169
             THEN LET rest == Utf8Decode(Tail(Tail(bytes)))
                  IN  IF rest = Undecodable THEN Undecodable ELSE <<"e'">> \o rest
             ELSE Undecodable

\* the base64 padding character, after the 64 digits 0..63
Pad == 64

\* base64 without the padding
RECURSIVE b64encodeUnpadded(_)
b64encodeUnpadded(bytes) ==
    IF bytes = <<>> THEN <<>>
    ELSE IF Len(bytes) = 1
    THEN <<bytes[1] \div 4, (bytes[1] % 4) * 16>>
    ELSE IF Len(bytes) = 2
    THEN <<bytes[1] \div 4, (bytes[1] % 4) * 16 + bytes[2] \div 16, (bytes[2] % 16) * 4>>
    ELSE <<bytes[1] \div 4, (bytes[1] % 4) * 16 + bytes[2] \div 16,
           (bytes[2] % 16) * 4 + bytes[3] \div 64, bytes[3] % 64>>
         \o b64encodeUnpadded(SubSeq(bytes, 4, Len(bytes)))

\* base64.b64encode: three bytes give four digits; one or two bytes left over give
\* two or three digits and padding
RECURSIVE b64encode(_)
b64encode(bytes) ==
    IF bytes = <<>> THEN <<>>
    ELSE IF Len(bytes) = 1
    THEN <<bytes[1] \div 4, (bytes[1] % 4) * 16, Pad, Pad>>
    ELSE IF Len(bytes) = 2
    THEN <<bytes[1] \div 4, (bytes[1] % 4) * 16 + bytes[2] \div 16,
           (bytes[2] % 16) * 4, Pad>>
    ELSE <<bytes[1] \div 4, (bytes[1] % 4) * 16 + bytes[2] \div 16,
           (bytes[2] % 16) * 4 + bytes[3] \div 64, bytes[3] % 64>>
         \o b64encode(SubSeq(bytes, 4, Len(bytes)))

\* base64.b64decode: four digits give three bytes, fewer with padding
RECURSIVE b64decode(_)
b64decode(digits) ==
    IF Len(digits) < 4 THEN <<>>
    ELSE LET d == SubSeq(digits, 1, 4)
             b1 == d[1] * 4 + d[2] \div 16
             b2 == (d[2] % 16) * 16 + d[3] \div 4
             b3 == (d[3] % 4) * 64 + d[4]
         IN  IF d[3] = Pad THEN <<b1>>
             ELSE IF d[4] = Pad THEN <<b1, b2>>
             ELSE <<b1, b2, b3>> \o b64decode(SubSeq(digits, 5, Len(digits)))

\* an absent dict key or a None value
None == "None"

\* no timestamp in the event dict
NoTimestamp == [repr |-> "none", t |-> 0]

\* _iso_now: the clock reading cut to whole milliseconds, as an ISO 8601 string
iso_now(now) == [repr |-> "iso", t |-> (now \div TicksPerMs) * TicksPerMs]

\* time.time(): the clock reading as float seconds
time_time(now) == [repr |-> "epoch", t |-> now]

\* who calls record_event, and with which type, role and source: the typed helpers
\* record_stt_raw and record_system_event (no role, no timestamp), the websocket
\* handler's make_event and the POST /session/{id}/event endpoint (a timestamp from
\* time.time(); the client may leave the source empty)
Callers ==
    { [by |-> "helper", type |-> "stt_raw", role |-> None, source |-> "whisper"],
      [by |-> "helper", type |-> "system", role |-> None, source |-> "session_manager"],
      [by |-> "handler", type |-> "user", role |-> "user", source |-> "user"],
      [by |-> "handler", type |-> "assistant", role |-> "coder", source |-> "goose"],
      [by |-> "client", type |-> "assistant", role |-> "coder", source |-> None] }

\* the event dict a caller passes to record_event at clock reading now
EventOf(caller, content, now) ==
    [type |-> caller.type, role |-> caller.role, source |-> caller.source,
     content |-> content,
     timestamp |-> IF caller.by = "helper" THEN NoTimestamp ELSE time_time(now)]

\* record_event's stored_event: ts from the event's timestamp or _iso_now, the source
\* normalised, the content replaced by body_b64
StoredFrom(event, now) ==
    [type |-> event.type, role |-> event.role,
     source |-> IF event.source # None THEN event.source
                ELSE IF event.role # None THEN event.role ELSE event.type,
     ts |-> IF event.timestamp # NoTimestamp THEN event.timestamp ELSE iso_now(now),
     body_b64 |-> b64encode(Utf8Encode(event.content))]

\* get_transcript's decoding of one stored event: body_b64 decoded when it is not
\* empty ("" when decoding fails), otherwise the event's content key, which a stored
\* event does not have
DecodedEvent(stored) ==
    LET text == Utf8Decode(b64decode(stored.body_b64))
    IN  [type |-> stored.type, role |-> stored.role, source |-> stored.source,
         ts |-> stored.ts,
         content |-> IF stored.body_b64 = <<>> \/ text = Undecodable THEN <<>> ELSE text]

\* _aggregate_transcript's key of an event
KeyOf(event) == <<event.type, event.role, event.source>>

\* mergeable = event.get("type") in {"assistant", "detail", "system"}
Mergeable(event) == event.type \in {"assistant", "detail", "system"}

\* merge_text: joined as they are after a trailing newline or space or before leading
\* whitespace or punctuation, otherwise with one space between
merge_text(prev, nxt) ==
    IF prev = <<>> THEN nxt
    ELSE IF nxt = <<>> THEN prev
    ELSE IF prev[Len(prev)] \in {"\n", " "} THEN prev \o nxt
    ELSE IF nxt[1] \in {" ", "\n", "\t", "'", ".", ",", "!", "?", ":", ";", ")", "]", "}", "%"}
    THEN prev \o nxt
    ELSE prev \o <<" ">> \o nxt

\* _aggregate_transcript's loop: an event with empty content is passed over; an event
\* with the buffer's key and a mergeable type is merged into the buffer; any other
\* event flushes the buffer and becomes the buffer
RECURSIVE AggregateFrom(_, _, _)
AggregateFrom(evs, aggregated, buffer) ==
    IF evs = <<>> THEN aggregated \o buffer
    ELSE LET event == Head(evs)
         IN  IF event.content = <<>> THEN AggregateFrom(Tail(evs), aggregated, buffer)
             ELSE IF buffer # <<>> /\ KeyOf(buffer[1]) = KeyOf(event) /\ Mergeable(event)
             THEN AggregateFrom(Tail(evs), aggregated,
                      <<[buffer[1] EXCEPT !.content = merge_text(@, event.content)]>>)
             ELSE AggregateFrom(Tail(evs), aggregated \o buffer, <<event>>)

aggregate_transcript(evs) == AggregateFrom(evs, <<>>, <<>>)

\* get_transcript: the file's lines, or the in-memory list when the file gave no
\* event, decoded and aggregated
get_transcript ==
    LET stored == IF log_file # <<>> THEN log_file ELSE log_mirror
    IN  aggregate_transcript([i \in 1..Len(stored) |-> DecodedEvent(stored[i])])

\* --------------------------------------------------- transcript: actions
\* a caller records an event with this content on the live session: record_event
\* appends the stored event to the in-memory list and to the file
RecordEvent(caller, content) ==
    /\ Len(log_calls) < MaxLogLen
    /\ LET event == EventOf(caller, content, clock)
           stored_event == StoredFrom(event, clock)
       IN  /\ log_mirror' = Append(log_mirror, stored_event)
           /\ log_file' = Append(log_file, stored_event)
           /\ log_calls' = Append(log_calls, event)
    /\ UNCHANGED clock

\* time passes
Tick ==
    /\ clock < MaxClock
    /\ clock' = clock + 1
    /\ UNCHANGED <<log_file, log_mirror, log_calls>>

InitLog ==
    /\ clock = 1
    /\ log_file = <<>>
    /\ log_mirror = <<>>
    /\ log_calls = <<>>

\* ----------------------------------------------------- rehydration: data
\* max_events of the call _extract_history_seed(transcript_path, max_events=6)
max_events == 6

\* who wrote the events of the earlier session: the websocket handler (user messages,
\* the agent's replies with role "coder") and the client-event endpoint posting an
\* event with role "assistant"
SeedCallers ==
    { [by |-> "handler", type |-> "user", role |-> "user", source |-> "user"],
      [by |-> "handler", type |-> "assistant", role |-> "coder", source |-> "goose"],
      [by |-> "client", type |-> "assistant", role |-> "assistant", source |-> None] }

\* the handler's welcome and working-directory events
WelcomeCaller == [by |-> "handler", type |-> "system", role |-> "system", source |-> "system"]

\* the contents explored: a text, and for user messages the empty text too
SeedContents(caller) == IF caller.type = "user" THEN {<<>>, <<"e'">>} ELSE {<<"e'">>}

\* _extract_history_seed's loop over reversed(events): at most max_events entries,
\* of the events whose role is user or assistant and whose decoded content is not
\* empty; seeded.reverse() at the end gives file order
RECURSIVE HistorySeedFrom(_, _, _)
HistorySeedFrom(evs, seeded, n) ==
    IF evs = <<>> \/ Len(seeded) >= n THEN seeded
    ELSE LET event == evs[Len(evs)]
             rest == SubSeq(evs, 1, Len(evs) - 1)
             content == DecodedEvent(event).content
         IN  IF event.role \notin {"user", "assistant"} THEN HistorySeedFrom(rest, seeded, n)
             ELSE IF content = <<>> THEN HistorySeedFrom(rest, seeded, n)
             ELSE HistorySeedFrom(rest,
                                  <<[role |-> event.role, content |-> content]>> \o seeded, n)

extract_history_seed(evs, n) == HistorySeedFrom(evs, <<>>, n)

\* -------------------------------------------------- rehydration: actions
\* the earlier session on this working directory records an event
RecordBeforeRestart(caller, content) ==
    /\ pc_seed = "before"
    /\ Len(seed_file) < MaxSeedLen
    /\ seed_file' = Append(seed_file, StoredFrom(EventOf(caller, content, 1), 1))
    /\ UNCHANGED <<pc_seed, session_history, welcome_sent, connects, welcome_pairs>>

\* create_session on the working directory: transcript_path.exists(), so the history
\* is seeded, and welcome_sent is set when the file is not empty
CreateOnTranscript ==
    /\ pc_seed = "before"
    /\ pc_seed' = "created"
    /\ session_history' = extract_history_seed(seed_file, max_events)
    /\ welcome_sent' = (seed_file # <<>>)
    /\ UNCHANGED <<seed_file, connects, welcome_pairs>>

\* websocket_endpoint up to its receive loop: the welcome event and the
\* working-directory event are built, recorded and sent
ConnectToSession ==
    /\ pc_seed \in {"created", "disconnected"}
    /\ connects < MaxConnects
    /\ connects' = connects + 1
    /\ seed_file' = seed_file \o <<StoredFrom(EventOf(WelcomeCaller, <<"e'">>, 1), 1),
                                   StoredFrom(EventOf(WelcomeCaller, <<"e'">>, 1), 1)>>
    /\ welcome_pairs' = welcome_pairs + 1
    /\ pc_seed' = "connected"
    /\ UNCHANGED <<session_history, welcome_sent>>

\* the client closes the websocket: WebSocketDisconnect ends the handler
DisconnectFromSession ==
    /\ pc_seed = "connected"
    /\ pc_seed' = "disconnected"
    /\ UNCHANGED <<seed_file, session_history, welcome_sent, connects, welcome_pairs>>

InitSeed ==
    /\ pc_seed = "before"
    /\ seed_file = <<>>
    /\ session_history = <<>>
    /\ welcome_sent = FALSE
    /\ connects = 0
    /\ welcome_pairs = 0

\* ---------------------------------------------------- orchestrator: data
\* What a user message is to the loop: a detail request (is_detail_request), an
\* affirmative (is_affirmative), or other text. "replace" is other text that holds
\* one of the phrases "stop and", "cancel this", "start over", "new plan",
\* "ignore previous"; the loop has no test for them.
MessageKinds == {"detail", "affirmative", "replace", "text"}

\* orchestrator_plan's answer: None (disabled, HTTP failure, invalid JSON), a clarify
\* decision with questions, a plan decision with tasks, a plan decision without tasks
PlanDecisions == {"none", "clarify", "plan", "plan_empty"}

NoPending == [original_request |-> 0, answers |-> <<>>, tasks |-> FALSE, questions |-> FALSE]

\* the text given to orchestrator_plan: the request's message, what follows it
\* ("" | "defaults": "Assume sensible defaults." | "clarifications": "User
\* clarifications:" and the answers joined by newlines)
PlanInput(request, suffix, answers) ==
    [request |-> request, suffix |-> suffix, answers |-> answers]

NoPlanInput == PlanInput(0, "", <<>>)

\* what the loop did with message n: the pending state it found, the planner input,
\* the controller events recorded and sent, what went to the coding agent ("none" |
\* "raw": the message as a new request | "plan": the pending plan)
Handled(n, kind, found, plan_input, events_sent, dispatched, cleared) ==
    [n |-> n, kind |-> kind, found |-> found, plan_input |-> plan_input,
     events_sent |-> events_sent, dispatched |-> dispatched, cleared |-> cleared]

\* the state of the pending slot: "none", "clarify" (questions asked, no tasks yet)
\* or "plan" (a plan was proposed)
PendingState(pending) ==
    IF pending = NoPending THEN "none" ELSE IF pending.tasks THEN "plan" ELSE "clarify"

\* ------------------------------------------------- orchestrator: actions
\* one round of the receive loop, for a message of this kind and this planner answer
HandleMessage(kind, decision) ==
    LET n == received + 1
        pending == pending_plan
        found == PendingState(pending)
        answers == Append(pending.answers, n)
    IN  /\ received < MaxMessages
        /\ received' = n
        /\ IF kind = "detail"
           THEN \* send_detail_response, continue
                /\ orch_log' = Append(orch_log,
                                      Handled(n, kind, found, NoPlanInput, 1, "none", FALSE))
                /\ UNCHANGED pending_plan
           ELSE IF pending # NoPending /\ kind = "affirmative" /\ pending.tasks
           THEN \* the pending plan goes to the agent
                /\ pending_plan' = NoPending
                /\ orch_log' = Append(orch_log,
                                      Handled(n, kind, found, NoPlanInput, 0, "plan", TRUE))
           ELSE IF pending # NoPending /\ kind = "affirmative"
           THEN \* the planner is asked again with "Assume sensible defaults."
                LET plan_input == PlanInput(pending.original_request, "defaults", <<>>)
                    planned == decision \in {"plan", "plan_empty"}
                IN  /\ pending_plan' = IF planned
                                       THEN [pending EXCEPT !.tasks = (decision = "plan")]
                                       ELSE pending
                    /\ orch_log' = Append(orch_log,
                                          Handled(n, kind, found, plan_input,
                                                  IF planned THEN 1 ELSE 0, "none", FALSE))
           ELSE IF pending # NoPending
           THEN \* the message is appended to the answers, the planner asked again
                LET plan_input == PlanInput(pending.original_request, "clarifications", answers)
                IN  /\ pending_plan' =
                           [pending EXCEPT !.answers = answers,
                                           !.questions = IF decision = "clarify" THEN TRUE ELSE @,
                                           !.tasks = IF decision = "plan" THEN TRUE ELSE @]
                    /\ orch_log' = Append(orch_log,
                                          Handled(n, kind, found, plan_input,
                                                  IF decision \in {"clarify", "plan"} THEN 1 ELSE 0,
                                                  "none", FALSE))
           ELSE \* nothing pending: the planner is asked about the message
                LET plan_input == PlanInput(n, "", <<>>)
                IN  IF decision \in {"clarify", "plan"}
                    THEN /\ pending_plan' = [original_request |-> n, answers |-> <<>>,
                                             tasks |-> (decision = "plan"),
                                             questions |-> (decision = "clarify")]
                         /\ orch_log' = Append(orch_log,
                                               Handled(n, kind, found, plan_input, 1, "none",
                                                       FALSE))
                    ELSE /\ UNCHANGED pending_plan
                         /\ orch_log' = Append(orch_log,
                                               Handled(n, kind, found, plan_input, 0, "raw",
                                                       FALSE))

InitOrch ==
    /\ received = 0
    /\ pending_plan = NoPending
    /\ orch_log = <<>>

\* -------------------------------------------------- detail requests: data
\* chunk_size of send_detail_response
chunk_size == 1200

\* the file lengths explored: empty, one character, and around one and two chunks
FileLengths == {0, 1, chunk_size - 1, chunk_size, chunk_size + 1, 2 * chunk_size + 1}

\* a file's content: its characters, each told from the others by its position
FileContent(len) == [i \in 1..len |-> i]

\* what is at file_path: a readable file, a file whose open or read raises, nothing
FileKinds == {"file", "unreadable", "missing"}

DetailEvent(kind, content) == [type |-> "detail", kind |-> kind, content |-> content]

\* os.path.abspath(os.path.join(cwd, path_hint)): an absolute hint replaces the cwd;
\* "." and ".." are resolved on the string, symlinks are not followed
abspath_join(cwd, path_hint) ==
    IF path_hint.abs THEN resolve(<<>>, path_hint.parts) ELSE resolve(cwd, path_hint.parts)

\* for idx in range(0, len(content), chunk_size): content[idx: idx + chunk_size]
RECURSIVE ChunkEvents(_, _)
ChunkEvents(content, idx) ==
    IF idx >= Len(content) THEN <<>>
    ELSE <<DetailEvent("chunk", SubSeq(content, idx + 1, Min(idx + chunk_size, Len(content))))>>
         \o ChunkEvents(content, idx + chunk_size)

\* send_detail_response: the refusal when the path's string does not start with the
\* cwd's string, the not-found and could-not-read messages, or the header and the
\* chunks
send_detail_response(cwd, path_hint, kind, content) ==
    LET file_path == abspath_join(cwd, path_hint)
    IN  IF ~startswith(str(file_path), str(resolve(<<>>, cwd)))
        THEN <<DetailEvent("refused", <<>>)>>
        ELSE IF kind = "missing" THEN <<DetailEvent("not_found", <<>>)>>
        ELSE IF kind = "unreadable" THEN <<DetailEvent("unreadable", <<>>)>>
        ELSE <<DetailEvent("header", <<>>)>> \o ChunkEvents(content, 0)

\* ----------------------------------------------- detail requests: actions
\* one round of the receive loop for a message that is a detail request: the user
\* event, send_detail_response, continue
DetailRequest(kind) ==
    /\ detail_pc = "receive"
    /\ detail_pc' = "done"
    /\ detail_events' = send_detail_response(detail_cwd, detail_hint, kind, detail_file)
    /\ UNCHANGED <<detail_cwd, detail_hint, detail_file, detail_calls>>

InitDetail ==
    /\ detail_cwd = <<<<"a">>>>
    /\ detail_hint = [abs |-> FALSE, parts |-> <<>>]
    /\ detail_file = <<>>
    /\ detail_pc = "receive"
    /\ detail_events = <<>>
    /\ detail_calls = 0

\* ------------------------------------------------------- summarizer: data
\* The tokens of a summarised text: a stopword, two keywords (longer than three
\* letters, no stopword) and a double-quoted phrase of two keywords.
SourceTokens == {"the", "server", "tests", "\"hello world\""}

SourceTexts == UNION {[1..n -> SourceTokens] : n \in 0..MaxSourceLen}

\* The tokens of an LLM summary: the three openers, a keyword, the phrase, and the
\* two sentence ends.
SummaryTokens == {"I did", "I learned", "Next", "server", "hello world", ".", "?"}

RawSummaries == UNION {[1..n -> SummaryTokens] : n \in 0..MaxSummaryLen}

\* the keywords of a token of the source, in order, as re.findall and the filter
\* of mentions_source give them
KeywordsOf(tok) ==
    IF tok \in {"server", "tests"} THEN <<tok>>
    ELSE IF tok = "\"hello world\"" THEN <<"hello", "world">>
    ELSE <<>>

RECURSIVE Keywords(_)
Keywords(source) ==
    IF source = <<>> THEN <<>> ELSE KeywordsOf(Head(source)) \o Keywords(Tail(source))

\* k in text.lower(): a substring test
Mentions(text, k) ==
    \E i \in 1..Len(text) :
        \/ text[i] = k
        \/ text[i] = "hello world" /\ k \in {"hello", "world", "hello world"}

\* has_format: starts with "I did", and "I learned" and "Next" occur somewhere
has_format(text) ==
    /\ text # <<>>
    /\ text[1] = "I did"
    /\ \E i \in 1..Len(text) : text[i] = "I learned"
    /\ \E i \in 1..Len(text) : text[i] = "Next"

\* extract_required_phrases: the quoted phrases of three or more characters
extract_required_phrases(source) ==
    LET quoted == SelectSeq(source, LAMBDA t : t = "\"hello world\"")
    IN  [i \in 1..Len(quoted) |-> "hello world"]

\* mentions_source: at least two of the first twenty keywords occur in the text,
\* a repeated keyword counted each time; true without keywords
mentions_source(text, source) ==
    LET keywords == Keywords(source)
        first == SubSeq(keywords, 1, Min(20, Len(keywords)))
        hits == Cardinality({i \in 1..Len(first) : Mentions(text, first[i])})
    IN  keywords = <<>> \/ hits >= 2

\* includes_required_phrases: the first two phrases occur in the text
includes_required_phrases(text, source) ==
    LET phrases == extract_required_phrases(source)
    IN  \A i \in 1..Min(2, Len(phrases)) : Mentions(text, phrases[i])

\* the rewritten summary: three lines built from the code-block count and the
\* first twelve words of the source, each ending in a full stop
Fallback(source) ==
    LET snippet == IF source = <<>> THEN <<"the current task context">>
                   ELSE SubSeq(source, 1, Min(12, Len(source)))
    IN  <<"I did", "review the response and noted no code blocks", ".", "I learned">>
        \o snippet
        \o <<".", "Next", "validate the output and iterate on any remaining gaps", ".">>

\* normalize_summary: the LLM's text when it passes the three tests, else the
\* rewritten one
normalize_summary(raw_summary, source) ==
    IF /\ raw_summary # <<>>
       /\ has_format(raw_summary)
       /\ mentions_source(raw_summary, source)
       /\ includes_required_phrases(raw_summary, source)
    THEN raw_summary
    ELSE Fallback(source)

\* ---------------------------------------------------- summarizer: actions
\* generate_summary when the LLM answers with raw_summary
generate_summary(raw_summary) ==
    /\ sum_pc = "call"
    /\ sum_pc' = "returned"
    /\ summary' = normalize_summary(raw_summary, source_text)
    /\ UNCHANGED source_text

\* generate_summary when the request fails: raise_for_status or the client raises
SummaryRaise ==
    /\ sum_pc = "call"
    /\ sum_pc' = "raised"
    /\ UNCHANGED <<source_text, summary>>

InitSummary ==
    /\ source_text = <<>>
    /\ sum_pc = "call"
    /\ summary = <<>>

\* --------------------------------------------------------- projects: data
Projects == {"p1", "p2"}

\* the branch names explored: main and one other (given by the caller or generated)
BranchNames == {"main", "b1"}

\* what the git commands of an operation do: all succeed, the first one fails, or a
\* later one fails after the first has changed the disk
GitOutcomes == {"ok", "first_failed", "later_failed"}

\* the working directories a session is opened on: a branch directory or a
\* directory below it
CwdsOf(project, branch) == {<<project, branch>>, <<project, branch, "sub">>}

\* _is_relative_to: path is base or lies below it, by components
is_relative_to(path, base) ==
    Len(base) <= Len(path) /\ SubSeq(path, 1, Len(base)) = base

NoOp == [op |-> "none", project |-> "", branch |-> "", source |-> "", result |-> "none"]

Op(op, project, branch, source, result) ==
    [op |-> op, project |-> project, branch |-> branch, source |-> source, result |-> result]

\* a registry that loses only the sessions whose cwd is dir itself
WithoutSessionsAt(dir) ==
    [sid \in {x \in DOMAIN proj_registry : proj_registry[x] # dir} |-> proj_registry[sid]]

\* the registry without the sessions whose cwd is inside dir: kill_session for each
WithoutSessionsIn(dir) ==
    [sid \in {x \in DOMAIN proj_registry : ~is_relative_to(proj_registry[x], dir)} |->
        proj_registry[sid]]

\* ------------------------------------------------------ projects: actions
\* POST /session/create without cwd: a new project with its main branch, and a
\* session on it; the generated name may be taken
new_project_session(sid, project) ==
    /\ sid \notin proj_issued
    /\ IF <<project, "main">> \in proj_dirs
       THEN /\ proj_last' = Op("new_project", project, "main", "", "error")
            /\ UNCHANGED <<proj_dirs, proj_registry, proj_issued>>
       ELSE /\ proj_dirs' = proj_dirs \cup {<<project, "main">>}
            /\ proj_registry' = Put(proj_registry, sid, <<project, "main">>)
            /\ proj_issued' = proj_issued \cup {sid}
            /\ proj_last' = Op("new_project", project, "main", "", "ok")
    /\ UNCHANGED proj_changed

\* POST /project/{p}/branch/{b}/session and POST /session/create with a cwd: a
\* session attached to an existing directory
open_branch_session(sid, project, branch, cwd) ==
    /\ sid \notin proj_issued
    /\ cwd \in CwdsOf(project, branch)
    /\ IF <<project, branch>> \notin proj_dirs
       THEN /\ proj_last' = Op("open_session", project, branch, "", "error")
            /\ UNCHANGED <<proj_registry, proj_issued>>
       ELSE /\ proj_registry' = Put(proj_registry, sid, cwd)
            /\ proj_issued' = proj_issued \cup {sid}
            /\ proj_last' = Op("open_session", project, branch, "", "ok")
    /\ UNCHANGED <<proj_dirs, proj_changed>>

\* SessionManager.create_branch
create_branch(project, branch_name, source_branch, git) ==
    /\ IF <<project, source_branch>> \notin proj_dirs \/ <<project, branch_name>> \in proj_dirs
       THEN /\ proj_last' = Op("create_branch", project, branch_name, source_branch, "error")
            /\ UNCHANGED proj_dirs
       ELSE /\ proj_dirs' = IF git = "first_failed" THEN proj_dirs
                              ELSE proj_dirs \cup {<<project, branch_name>>}
            /\ proj_last' = Op("create_branch", project, branch_name, source_branch,
                               IF git = "ok" THEN "ok" ELSE "error")
    /\ UNCHANGED <<proj_changed, proj_registry, proj_issued>>

\* SessionManager.delete_branch
delete_branch(project, branch_name) ==
    /\ IF <<project, branch_name>> \notin proj_dirs
       THEN /\ proj_last' = Op("delete_branch", project, branch_name, "", "false")
            /\ UNCHANGED <<proj_dirs, proj_changed, proj_registry>>
       ELSE /\ proj_registry' = WithoutSessionsIn(<<project, branch_name>>)
            /\ proj_dirs' = proj_dirs \ {<<project, branch_name>>}
            /\ proj_changed' = proj_changed \ {<<project, branch_name>>}
            /\ proj_last' = Op("delete_branch", project, branch_name, "", "true")
    /\ UNCHANGED proj_issued

\* SessionManager.delete_project
delete_project(project) ==
    /\ IF \A d \in proj_dirs : d[1] # project
       THEN /\ proj_last' = Op("delete_project", project, "", "", "false")
            /\ UNCHANGED <<proj_dirs, proj_changed, proj_registry>>
       ELSE /\ proj_registry' = WithoutSessionsIn(<<project>>)
            /\ proj_dirs' = {d \in proj_dirs : d[1] # project}
            /\ proj_changed' = {d \in proj_changed : d[1] # project}
            /\ proj_last' = Op("delete_project", project, "", "", "true")
    /\ UNCHANGED proj_issued

\* a merge that does not refuse the main branch
MergeIntoWithoutMainCheck(op, project, branch_name, target, git) ==
    /\ IF \/ <<project, "main">> \notin proj_dirs
          \/ <<project, branch_name>> \notin proj_dirs
       THEN /\ proj_last' = Op(op, project, branch_name, "", "error")
            /\ UNCHANGED proj_changed
       ELSE /\ proj_changed' = IF git = "first_failed" THEN proj_changed
                                 ELSE proj_changed \cup {<<project, target>>}
            /\ proj_last' = Op(op, project, branch_name, "",
                               IF git = "ok" THEN "ok" ELSE "error")
    /\ UNCHANGED <<proj_dirs, proj_registry, proj_issued>>

\* merge_branch_into_main and sync_branch_from_main: the checks, then the git
\* commands in the directory that receives the merge
MergeInto(op, project, branch_name, target, git) ==
    /\ IF \/ branch_name = "main"
          \/ <<project, "main">> \notin proj_dirs
          \/ <<project, branch_name>> \notin proj_dirs
       THEN /\ proj_last' = Op(op, project, branch_name, "", "error")
            /\ UNCHANGED proj_changed
       ELSE /\ proj_changed' = IF git = "first_failed" THEN proj_changed
                                 ELSE proj_changed \cup {<<project, target>>}
            /\ proj_last' = Op(op, project, branch_name, "",
                               IF git = "ok" THEN "ok" ELSE "error")
    /\ UNCHANGED <<proj_dirs, proj_registry, proj_issued>>

\* SessionManager.merge_branch_into_main
merge_branch_into_main(project, branch_name, git) ==
    MergeInto("merge_branch_into_main", project, branch_name, "main", git)

\* SessionManager.sync_branch_from_main
sync_branch_from_main(project, branch_name, git) ==
    MergeInto("sync_branch_from_main", project, branch_name, branch_name, git)

InitProjects ==
    /\ proj_dirs = {}
    /\ proj_changed = {}
    /\ proj_registry = <<>>
    /\ proj_issued = {}
    /\ proj_last = NoOp

\* ---------------------------------------------------------- planner: data
UserTexts == {"fix the tests", "add a readme"}

\* A planner response, by what parse_plan_xml searches it for: whether it holds a
\* <plan> block; its <confidence> text (absent or not of digits and dots, a number,
\* or digits and dots that are no number, as "0.8."); its <clarify> text; and per
\* <task> block whether it holds a <description>.
PlannerResponses ==
    [plan_block : BOOLEAN,
     confidence : {"absent", "number", "malformed"},
     clarify : {"absent", "blank", "text"},
     tasks : SeqsUpTo(BOOLEAN, MaxTasks)]

NoResponse == [plan_block |-> FALSE, confidence |-> "absent", clarify |-> "absent",
               tasks |-> <<>>]

TaskPlan(intent, confidence, tasks, needs_clarification) ==
    [intent |-> intent, confidence |-> confidence, tasks |-> tasks,
     needs_clarification |-> needs_clarification]

NoTaskPlan == TaskPlan("", "none", <<>>, FALSE)

\* float(conf_match.group(1)) raises ValueError
ParseRaises(response) == response.plan_block /\ response.confidence = "malformed"

\* parse_plan_xml on a response with a <plan> block and a confidence that float()
\* accepts: confidence 0.5 when absent, a blank <clarify> dropped, one Task per
\* <task> block with an empty description when it has none
parse_plan_xml(response) ==
    TaskPlan("parsed",
             IF response.confidence = "number" THEN "given" ELSE "0.5",
             [i \in 1..Len(response.tasks) |->
                 [id |-> i,
                  description |-> IF response.tasks[i] THEN "parsed" ELSE ""]],
             response.clarify = "text")

\* the plan decompose_intent builds when parse_plan_xml returned None
FallbackTaskPlan(text) ==
    TaskPlan(text, "0.5", <<[id |-> 1, description |-> text]>>, FALSE)

\* ------------------------------------------------------- planner: actions
\* decompose_intent: the planner answered; parse_plan_xml returns None without a
\* <plan> block, raises on a confidence that is no number, else returns the plan
decompose_intent ==
    /\ pc_plan = "call"
    /\ IF ParseRaises(planner_response)
       THEN /\ pc_plan' = "raised"
            /\ UNCHANGED returned_plan
       ELSE /\ pc_plan' = "returned"
            /\ returned_plan' = IF planner_response.plan_block
                                THEN parse_plan_xml(planner_response)
                                ELSE FallbackTaskPlan(user_text)
    /\ UNCHANGED <<user_text, planner_response>>

InitPlanner ==
    /\ user_text = "fix the tests"
    /\ planner_response = NoResponse
    /\ pc_plan = "call"
    /\ returned_plan = NoTaskPlan

\* --------------------------------------------------------- specifications
\* Coder runs in one session
Init == InitCoder /\ InitManager /\ InitSessions /\ InitTools /\ InitLog /\ InitSeed /\ InitOrch /\ InitDetail /\ InitSummary /\ InitProjects /\ InitPlanner

Next ==
    \/ StartRun /\ UNCHANGED <<mgrVars, sessionVars, toolVars, logVars, seedVars, orchVars, detailVars, summaryVars, projVars, plannerVars>>
    \/ \E resp \in Responses(Min(MaxCalls, MaxToolCalls - tool_execs), llm_calls + 1,
                              ThinkChoices) :
           LLMRespond(resp) /\ UNCHANGED <<mgrVars, sessionVars, toolVars, logVars, seedVars, orchVars, detailVars, summaryVars, projVars, plannerVars>>
    \/ LLMRaise /\ UNCHANGED <<mgrVars, sessionVars, toolVars, logVars, seedVars, orchVars, detailVars, summaryVars, projVars, plannerVars>>
    \/ EmitToolCall /\ UNCHANGED <<mgrVars, sessionVars, toolVars, logVars, seedVars, orchVars, detailVars, summaryVars, projVars, plannerVars>>
    \/ \E outcome \in ToolOutcomes : ToolResult(outcome) /\ UNCHANGED <<mgrVars, sessionVars, toolVars, logVars, seedVars, orchVars, detailVars, summaryVars, projVars, plannerVars>>

Spec == Init /\ [][Next]_vars

\* one Manager request
InitManagerSpec == InitCoder /\ supports_tool_call_messages /\ InitManager /\ InitSessions /\ InitTools /\ InitLog /\ InitSeed /\ InitOrch /\ InitDetail /\ InitSummary /\ InitProjects /\ InitPlanner

NextManager ==
    \/ ProcessRequest /\ UNCHANGED <<coderVars, sessionVars, toolVars, logVars, seedVars, orchVars, detailVars, summaryVars, projVars, plannerVars>>
    \/ /\ pc_mgr = "decompose"
       /\ \E p \in ParsedPlans \cup {FallbackPlan} :
              Decompose(p) /\ UNCHANGED <<coderVars, sessionVars, toolVars, logVars, seedVars, orchVars, detailVars, summaryVars, projVars, plannerVars>>
    \/ DecomposeRaise /\ UNCHANGED <<coderVars, sessionVars, toolVars, logVars, seedVars, orchVars, detailVars, summaryVars, projVars, plannerVars>>
    \/ SkipTask /\ UNCHANGED <<coderVars, sessionVars, toolVars, logVars, seedVars, orchVars, detailVars, summaryVars, projVars, plannerVars>>
    \/ StartTask /\ UNCHANGED <<coderVars, sessionVars, toolVars, logVars, seedVars, orchVars, detailVars, summaryVars, projVars, plannerVars>>
    \/ \E output \in CoderOutputs : \E files_changed \in FilesChoices(output) :
           CoderAttempt(output, files_changed) /\ UNCHANGED <<coderVars, sessionVars, toolVars, logVars, seedVars, orchVars, detailVars, summaryVars, projVars, plannerVars>>
    \/ CoderRaise /\ UNCHANGED <<coderVars, sessionVars, toolVars, logVars, seedVars, orchVars, detailVars, summaryVars, projVars, plannerVars>>
    \/ Summary /\ UNCHANGED <<coderVars, sessionVars, toolVars, logVars, seedVars, orchVars, detailVars, summaryVars, projVars, plannerVars>>

SpecManager == InitManagerSpec /\ [][NextManager]_vars

\* the server: sessions created and killed over HTTP while websocket handlers run
InitSessionSpec == InitCoder /\ supports_tool_call_messages /\ InitManager /\ InitSessions /\ InitTools /\ InitLog /\ InitSeed /\ InitOrch /\ InitDetail /\ InitSummary /\ InitProjects /\ InitPlanner

NextSession ==
    \/ \E sid \in SessionIds, b \in Branches \cup {NoBranch} :
           create_session(sid, b) /\ UNCHANGED <<coderVars, mgrVars, toolVars, logVars, seedVars, orchVars, detailVars, summaryVars, projVars, plannerVars>>
    \/ \E sid \in SessionIds : kill_session(sid) /\ UNCHANGED <<coderVars, mgrVars, toolVars, logVars, seedVars, orchVars, detailVars, summaryVars, projVars, plannerVars>>
    \/ \E sid \in SessionIds : Connect(sid) /\ UNCHANGED <<coderVars, mgrVars, toolVars, logVars, seedVars, orchVars, detailVars, summaryVars, projVars, plannerVars>>
    \/ \E sid \in SessionIds : Welcome(sid) /\ UNCHANGED <<coderVars, mgrVars, toolVars, logVars, seedVars, orchVars, detailVars, summaryVars, projVars, plannerVars>>
    \/ \E sid \in SessionIds : Receive(sid) /\ UNCHANGED <<coderVars, mgrVars, toolVars, logVars, seedVars, orchVars, detailVars, summaryVars, projVars, plannerVars>>
    \/ \E sid \in SessionIds, decision \in Decisions :
           PlanReply(sid, decision) /\ UNCHANGED <<coderVars, mgrVars, toolVars, logVars, seedVars, orchVars, detailVars, summaryVars, projVars, plannerVars>>
    \/ \E sid \in SessionIds : StreamEvent(sid) /\ UNCHANGED <<coderVars, mgrVars, toolVars, logVars, seedVars, orchVars, detailVars, summaryVars, projVars, plannerVars>>
    \/ \E sid \in SessionIds : StreamEnd(sid) /\ UNCHANGED <<coderVars, mgrVars, toolVars, logVars, seedVars, orchVars, detailVars, summaryVars, projVars, plannerVars>>
    \/ \E sid \in SessionIds, ok \in BOOLEAN :
           SummaryEvents(sid, ok) /\ UNCHANGED <<coderVars, mgrVars, toolVars, logVars, seedVars, orchVars, detailVars, summaryVars, projVars, plannerVars>>
    \/ \E sid \in SessionIds : Disconnect(sid) /\ UNCHANGED <<coderVars, mgrVars, toolVars, logVars, seedVars, orchVars, detailVars, summaryVars, projVars, plannerVars>>

SpecSession == InitSessionSpec /\ [][NextSession]_vars

\* one call of a path-taking tool, for every cwd and path argument
InitToolSpec ==
    /\ InitCoder /\ supports_tool_call_messages /\ InitManager /\ InitSessions /\ InitLog /\ InitSeed /\ InitOrch /\ InitDetail /\ InitSummary /\ InitProjects /\ InitPlanner
    /\ tool_cwd \in CwdChoices
    /\ path_str \in PathChoices
    /\ tool_state = "ready"
    /\ tool_error = FALSE
    /\ accessed = {}

NextTool ==
    \E tool \in FileTools, exists \in BOOLEAN :
        FileTool(tool, exists) /\ UNCHANGED <<coderVars, mgrVars, sessionVars, logVars, seedVars, orchVars, detailVars, summaryVars, projVars, plannerVars>>

SpecTool == InitToolSpec /\ [][NextTool]_vars

\* events recorded on one live session by the typed helpers, the websocket handler
\* and the client-event endpoint, as time passes
InitLogSpec ==
    InitCoder /\ supports_tool_call_messages /\ InitManager /\ InitSessions /\ InitTools /\ InitLog /\ InitSeed /\ InitOrch /\ InitDetail /\ InitSummary /\ InitProjects /\ InitPlanner

NextLog ==
    \/ \E caller \in Callers, content \in Contents :
           RecordEvent(caller, content)
               /\ UNCHANGED <<coderVars, mgrVars, sessionVars, toolVars, seedVars, orchVars, detailVars, summaryVars, projVars, plannerVars>>
    \/ Tick /\ UNCHANGED <<coderVars, mgrVars, sessionVars, toolVars, seedVars, orchVars, detailVars, summaryVars, projVars, plannerVars>>

SpecLog == InitLogSpec /\ [][NextLog]_vars

\* a session created on the transcript an earlier session left, then connected to
InitSeedSpec ==
    InitCoder /\ supports_tool_call_messages /\ InitManager /\ InitSessions /\ InitTools /\ InitLog /\ InitSeed /\ InitOrch /\ InitDetail /\ InitSummary /\ InitProjects /\ InitPlanner

NextSeed ==
    \/ \E caller \in SeedCallers : \E content \in SeedContents(caller) :
           RecordBeforeRestart(caller, content)
               /\ UNCHANGED <<coderVars, mgrVars, sessionVars, toolVars, logVars, orchVars, detailVars, summaryVars, projVars, plannerVars>>
    \/ CreateOnTranscript /\ UNCHANGED <<coderVars, mgrVars, sessionVars, toolVars, logVars, orchVars, detailVars, summaryVars, projVars, plannerVars>>
    \/ ConnectToSession /\ UNCHANGED <<coderVars, mgrVars, sessionVars, toolVars, logVars, orchVars, detailVars, summaryVars, projVars, plannerVars>>
    \/ DisconnectFromSession /\ UNCHANGED <<coderVars, mgrVars, sessionVars, toolVars, logVars, orchVars, detailVars, summaryVars, projVars, plannerVars>>

SpecSeed == InitSeedSpec /\ [][NextSeed]_vars

\* the messages of one websocket connection, for every planner answer
InitOrchSpec ==
    InitCoder /\ supports_tool_call_messages /\ InitManager /\ InitSessions /\ InitTools /\ InitLog /\ InitSeed /\ InitOrch /\ InitDetail /\ InitSummary /\ InitProjects /\ InitPlanner

NextOrch ==
    \E kind \in MessageKinds, decision \in PlanDecisions :
        HandleMessage(kind, decision)
            /\ UNCHANGED <<coderVars, mgrVars, sessionVars, toolVars, logVars, seedVars, detailVars, summaryVars, projVars, plannerVars>>

SpecOrch == InitOrchSpec /\ [][NextOrch]_vars

\* one detail request, for every cwd, path and file
InitDetailSpec ==
    /\ InitCoder /\ supports_tool_call_messages /\ InitManager /\ InitSessions /\ InitTools
    /\ InitLog /\ InitSeed /\ InitOrch /\ InitSummary /\ InitProjects /\ InitPlanner
    /\ detail_cwd \in CwdChoices
    /\ detail_hint \in PathChoices
    /\ detail_file \in {FileContent(len) : len \in FileLengths}
    /\ detail_pc = "receive"
    /\ detail_events = <<>>
    /\ detail_calls = 0

NextDetail ==
    \E kind \in FileKinds :
        DetailRequest(kind)
            /\ UNCHANGED <<coderVars, mgrVars, sessionVars, toolVars, logVars, seedVars, orchVars, summaryVars, projVars, plannerVars>>

SpecDetail == InitDetailSpec /\ [][NextDetail]_vars

\* one call of generate_summary, for every source text and LLM answer
InitSummarySpec ==
    /\ InitCoder /\ supports_tool_call_messages /\ InitManager /\ InitSessions /\ InitTools
    /\ InitLog /\ InitSeed /\ InitOrch /\ InitDetail /\ InitProjects /\ InitPlanner
    /\ source_text \in SourceTexts
    /\ sum_pc = "call"
    /\ summary = <<>>

NextSummary ==
    \/ \E raw_summary \in RawSummaries :
          generate_summary(raw_summary)
            /\ UNCHANGED <<coderVars, mgrVars, sessionVars, toolVars, logVars, seedVars, orchVars, detailVars, projVars, plannerVars>>
    \/ SummaryRaise
            /\ UNCHANGED <<coderVars, mgrVars, sessionVars, toolVars, logVars, seedVars, orchVars, detailVars, projVars, plannerVars>>

SpecSummary == InitSummarySpec /\ [][NextSummary]_vars

\* projects, branches and the sessions opened on them
InitProjectSpec ==
    InitCoder /\ supports_tool_call_messages /\ InitManager /\ InitSessions /\ InitTools /\ InitLog /\ InitSeed /\ InitOrch /\ InitDetail /\ InitSummary /\ InitProjects /\ InitPlanner

NextProject ==
    \/ \E sid \in SessionIds, project \in Projects :
           new_project_session(sid, project)
               /\ UNCHANGED <<coderVars, mgrVars, sessionVars, toolVars, logVars, seedVars, orchVars, detailVars, summaryVars, plannerVars>>
    \/ \E sid \in SessionIds, project \in Projects, branch \in BranchNames :
           \E cwd \in CwdsOf(project, branch) :
               open_branch_session(sid, project, branch, cwd)
                   /\ UNCHANGED <<coderVars, mgrVars, sessionVars, toolVars, logVars, seedVars, orchVars, detailVars, summaryVars, plannerVars>>
    \/ \E project \in Projects, branch_name \in BranchNames, source_branch \in BranchNames :
           \E git \in GitOutcomes :
               create_branch(project, branch_name, source_branch, git)
                   /\ UNCHANGED <<coderVars, mgrVars, sessionVars, toolVars, logVars, seedVars, orchVars, detailVars, summaryVars, plannerVars>>
    \/ \E project \in Projects, branch_name \in BranchNames :
           delete_branch(project, branch_name)
               /\ UNCHANGED <<coderVars, mgrVars, sessionVars, toolVars, logVars, seedVars, orchVars, detailVars, summaryVars, plannerVars>>
    \/ \E project \in Projects :
           delete_project(project)
               /\ UNCHANGED <<coderVars, mgrVars, sessionVars, toolVars, logVars, seedVars, orchVars, detailVars, summaryVars, plannerVars>>
    \/ \E project \in Projects, branch_name \in BranchNames, git \in GitOutcomes :
           merge_branch_into_main(project, branch_name, git)
               /\ UNCHANGED <<coderVars, mgrVars, sessionVars, toolVars, logVars, seedVars, orchVars, detailVars, summaryVars, plannerVars>>
    \/ \E project \in Projects, branch_name \in BranchNames, git \in GitOutcomes :
           sync_branch_from_main(project, branch_name, git)
               /\ UNCHANGED <<coderVars, mgrVars, sessionVars, toolVars, logVars, seedVars, orchVars, detailVars, summaryVars, plannerVars>>

SpecProject == InitProjectSpec /\ [][NextProject]_vars

\* one call of decompose_intent, for every planner response
InitPlannerSpec ==
    /\ InitCoder /\ supports_tool_call_messages /\ InitManager /\ InitSessions /\ InitTools
    /\ InitLog /\ InitSeed /\ InitOrch /\ InitDetail /\ InitSummary /\ InitProjects
    /\ user_text \in UserTexts
    /\ planner_response \in PlannerResponses
    /\ pc_plan = "call"
    /\ returned_plan = NoTaskPlan

NextPlanner ==
    decompose_intent
        /\ UNCHANGED <<coderVars, mgrVars, sessionVars, toolVars, logVars, seedVars, orchVars, detailVars, summaryVars, projVars>>

SpecPlanner == InitPlannerSpec /\ [][NextPlanner]_vars

\* ------------------------------------------------------------------ claims
\* positions of the events of a given type
ToolCalls == {i \in 1..Len(events) : events[i].type = "tool_call"}
ToolResults == {i \in 1..Len(events) : events[i].type = "tool_result"}

\* C1: in a Coder run every tool_call event is followed at once, before any other
\* event, by exactly one tool_result event with the same call_id, whether the tool
\* returned normally, returned a non-zero exit code or raised: a tool_call is the
\* last event only while its tool runs, the event after a tool_call is its
\* tool_result, and every tool_result directly follows the tool_call it answers.
C1_ToolCallAnswered ==
    /\ \A i \in ToolCalls :
          IF i = Len(events)
          THEN pc_coder = "exec" /\ cur_call = events[i].call_id
          ELSE /\ events[i + 1].type = "tool_result"
               /\ events[i + 1].call_id = events[i].call_id
               /\ events[i + 1].run = events[i].run
    /\ \A j \in ToolResults :
          /\ j > 1
          /\ events[j - 1].type = "tool_call"
          /\ events[j - 1].call_id = events[j].call_id

\* a run that ended after a tool that raised, one that exited non-zero and one that
\* succeeded were each answered
C1_Witness ==
    /\ pc_coder = "done"
    /\ \E i, j \in ToolResults :
          /\ events[i].error
          /\ ~events[j].error /\ events[j].success = "false"
    /\ \A i \in ToolCalls : i < Len(events)

\* C2: over the whole session, every tool_call has exactly one tool_result with its
\* call_id, which comes after it, and no call_id is used by two tool_call events
\* (a tool_call whose tool is still running has its result pending).
C2_CallIdsCorrelateUniquely ==
    \A i \in ToolCalls :
        /\ \A k \in ToolCalls : events[k].call_id = events[i].call_id => k = i
        /\ (i < Len(events)) =>
              /\ Cardinality({j \in ToolResults : events[j].call_id = events[i].call_id}) = 1
              /\ \A j \in ToolResults : events[j].call_id = events[i].call_id => j > i

\* positions of the Manager's events of a given type for the task at plan position i
MgrEventsOf(type, i) ==
    {k \in 1..Len(mgr_events) : mgr_events[k].type = type /\ mgr_events[k].idx = i}

RequestOver == pc_mgr \in {"done", "raised"}

PlanPositions == 1..Len(plan.tasks)

\* C3: the Manager invokes the Coder at most max_retries + 1 times for each task, and
\* never for a task one of whose dependencies has not completed when the request ends.
C3_BoundedInvocations ==
    /\ \A i \in PlanPositions : coder_invocations[i] <= max_retries + 1
    /\ RequestOver =>
          \A i \in PlanPositions :
              (\E d \in plan.tasks[i].dependencies : ~InSeq(d, completed_tasks))
                  => coder_invocations[i] = 0

\* a request that ended with one task tried max_retries + 1 times and another never
\* tried because its dependency did not complete
C3_Witness ==
    /\ pc_mgr = "done"
    /\ \E i, j \in PlanPositions :
          /\ coder_invocations[i] = max_retries + 1
          /\ coder_invocations[j] = 0
          /\ \E d \in plan.tasks[j].dependencies : ~InSeq(d, completed_tasks)

\* the attempts made for the task at plan position i, in order
AttemptsOf(i) == SelectSeq(attempt_log, LAMBDA a : a.idx = i)

\* C4: for a dispatched task another Coder attempt is started exactly when the
\* previous attempt did not end COMPLETED and fewer than max_retries + 1 attempts
\* were made; once the task is handled, task_complete was emitted if and only if
\* some attempt ended COMPLETED, and task_failed otherwise.
C4_RetryAndClose ==
    \A i \in PlanPositions :
        (MgrEventsOf("task_start", i) # {} /\ (task_idx > i \/ RequestOver)) =>
            LET atts == AttemptsOf(i)
                completed == \E k \in 1..Len(atts) : atts[k].status = "COMPLETED"
            IN  /\ \A k \in 1..Len(atts) :
                      (k < Len(atts)) <=>
                          (atts[k].status # "COMPLETED" /\ k < max_retries + 1)
                /\ \A k \in 1..Len(atts) : atts[k].attempt = k
                /\ (MgrEventsOf("task_complete", i) # {}) <=> completed
                /\ (MgrEventsOf("task_failed", i) # {}) <=> ~completed

\* C5: tasks are handled in plan order; a task is dispatched (task_start, Coder
\* invoked) only if every id in its dependencies was completed before its turn;
\* a task whose turn came with a dependency missing got exactly one skip event, no
\* task_start and no Coder invocation.
CompletedBefore(k) ==
    {mgr_events[m].task_id : m \in {n \in 1..(k - 1) : mgr_events[n].type = "task_complete"}}

C5_DependencyGate ==
    /\ \A k, m \in 1..Len(mgr_events) :
          (k < m /\ mgr_events[k].idx # 0 /\ mgr_events[m].idx # 0)
              => mgr_events[k].idx <= mgr_events[m].idx
    /\ \A i \in PlanPositions :
          /\ \A k \in MgrEventsOf("task_start", i) :
                plan.tasks[i].dependencies \subseteq CompletedBefore(k)
          /\ coder_invocations[i] > 0 => MgrEventsOf("task_start", i) # {}
          /\ (pc_mgr \in {"tasks", "attempt", "done", "raised"} /\ task_idx > i) =>
                \/ /\ Cardinality(MgrEventsOf("task_start", i)) = 1
                   /\ MgrEventsOf("system", i) = {}
                \/ /\ Cardinality(MgrEventsOf("system", i)) = 1
                   /\ MgrEventsOf("task_start", i) = {}
                   /\ coder_invocations[i] = 0
                   /\ \A k \in MgrEventsOf("system", i) :
                         ~(plan.tasks[i].dependencies \subseteq CompletedBefore(k))

\* a request that ended after dispatching a task, which failed, and skipping the
\* task that depends on it without invoking the Coder for it
C5_Witness ==
    /\ pc_mgr = "done"
    /\ \E i, j \in PlanPositions :
          /\ i < j
          /\ MgrEventsOf("task_start", i) # {}
          /\ MgrEventsOf("task_failed", i) # {}
          /\ plan.tasks[i].id \in plan.tasks[j].dependencies
          /\ MgrEventsOf("system", j) # {}
          /\ coder_invocations[j] = 0

\* C6: a failed task does not abort the plan: once the request is over, if a task
\* ended FAILED then every later task whose dependencies all completed was
\* dispatched, and the last event is the summary.
C6_FailedTaskDoesNotAbort ==
    (RequestOver /\ \E i \in PlanPositions : MgrEventsOf("task_failed", i) # {}) =>
        /\ \A i, j \in PlanPositions :
              (/\ MgrEventsOf("task_failed", i) # {}
               /\ i < j
               /\ \A d \in plan.tasks[j].dependencies : InSeq(d, completed_tasks))
                  => MgrEventsOf("task_start", j) # {}
        /\ mgr_events[Len(mgr_events)].type = "summary"

\* C7: when the decomposed plan has a clarification question, process_request emits
\* the manager status event and exactly one clarify event and returns: no plan,
\* task, Coder or summary event, and no Coder invocation, tasks in the plan or not.
C7_ClarifyReturns ==
    (pc_mgr \notin {"idle", "decompose"} /\ plan.needs_clarification) =>
        /\ pc_mgr = "done"
        /\ Len(mgr_events) = 2
        /\ mgr_events[1].type = "manager"
        /\ mgr_events[2].type = "clarify"
        /\ coder_runs = 0

\* a plan with a clarification question and tasks was answered with the clarify event
C7_Witness ==
    /\ pc_mgr = "done"
    /\ plan.needs_clarification
    /\ Len(plan.tasks) > 0
    /\ mgr_events[Len(mgr_events)].type = "clarify"

\* C8: after a session is killed nothing more is written for it: it has no in-memory
\* transcript and the events on disk recorded for it are those present when
\* kill_session ran.
C8_NoWriteAfterKill ==
    \A sid \in killed :
        /\ sid \notin DOMAIN transcripts
        /\ RecordsOnDisk(sid) = records_at_kill[sid]

\* C9: a killed session is out of the registry, no planner, agent or summarizer call
\* is made for it after the kill, and its websocket is not left open.
C9_KillCancelsAndCloses ==
    \A sid \in killed :
        /\ sid \notin sessions
        /\ agent_calls[sid] = agent_calls_at_kill[sid]
        /\ transport[sid] # "open"

\* whether path p is directory d or lies below it
IsWithin(p, d) == Len(d) <= Len(p) /\ SubSeq(p, 1, Len(d)) = d

\* the absolute path a path argument names from the cwd
Named(cwd, p) == IF p.abs THEN resolve(<<>>, p.parts) ELSE resolve(cwd, p.parts)

\* C10: a file tool (list_dir, read_file, write_file, append_file) acts only on the
\* session cwd or a descendant of it: a path argument that resolves anywhere else
\* (through "..", as an absolute path, or into a sibling directory whose name starts
\* with the cwd's name) is rejected with an error and nothing is read or written.
C10_PathConfined ==
    (tool_state \in FileTools /\ ~IsWithin(Named(tool_cwd, path_str), tool_cwd)) =>
        /\ tool_error
        /\ accessed = {}

C12_EveryEventHasTaskId ==
    \A i \in 1..Len(events) : events[i].task_id = GeneratedTaskId(events[i].run)

\* the events of run r, in emission order
RunEvents(r) == SelectSeq(events, LAMBDA e : e.run = r)

\* the positions of the error events in the event sequence evs
StepLimitErrors(evs) == {i \in 1..Len(evs) : evs[i].type = "error"}

\* C13: a Coder run makes at most max_steps chat_with_tools calls; a run whose
\* max_steps steps all executed tool calls has stopped with exactly one error event,
\* the last event of the run; no other run has an error event.
C13_StepLimit ==
    \A r \in 1..runs :
        LET evs == RunEvents(r)
            errs == StepLimitErrors(evs)
        IN  /\ run_llm_calls[r] <= max_steps
            /\ errs \subseteq {Len(evs)}
            /\ errs # {} => run_llm_calls[r] = max_steps
            /\ (r = runs /\ steps_remaining = 0) =>
                   /\ pc_coder = "done"
                   /\ errs = {Len(evs)}
                   /\ evs # <<>>

C13_Witness ==
    /\ runs > 0
    /\ pc_coder = "done"
    /\ steps_remaining = 0
    /\ run_llm_calls[runs] = max_steps
    /\ Cardinality({i \in 1..Len(events) : events[i].type = "tool_call"}) >= max_steps

\* C14: when the request ends, every skipped task has status BLOCKED and every
\* dispatched task has status COMPLETED or FAILED.
C14_TaskStatusAtEnd ==
    pc_mgr = "done" =>
        \A i \in PlanPositions :
            /\ plan.tasks[i].status \in TaskStatus
            /\ MgrEventsOf("system", i) # {} => plan.tasks[i].status = "BLOCKED"
            /\ MgrEventsOf("task_start", i) # {}
                   => plan.tasks[i].status \in {"COMPLETED", "FAILED"}

\* the ids of the plan's tasks
PlanIds(p) == {p.tasks[i].id : i \in 1..Len(p.tasks)}

\* whether the task with id a reaches the task with id b along at most n dependencies
RECURSIVE DependsWithin(_, _, _, _)
DependsWithin(p, a, b, n) ==
    /\ n > 0
    /\ \E i \in 1..Len(p.tasks) :
          /\ p.tasks[i].id = a
          /\ \/ b \in p.tasks[i].dependencies
             \/ \E c \in p.tasks[i].dependencies : DependsWithin(p, c, b, n - 1)

\* C15: every plan the Manager executes has pairwise distinct task ids, dependencies
\* that name only ids of the plan, and no dependency cycle (no self-dependency).
C15_PlanIsDag ==
    pc_mgr \in {"tasks", "attempt"} =>
        /\ \A i, j \in PlanPositions : plan.tasks[i].id = plan.tasks[j].id => i = j
        /\ \A i \in PlanPositions : plan.tasks[i].dependencies \subseteq PlanIds(plan)
        /\ \A a \in PlanIds(plan) : ~DependsWithin(plan, a, a, Len(plan.tasks))

SummaryPositions == {k \in 1..Len(mgr_events) : mgr_events[k].type = "summary"}

\* the plan positions of the tasks that were dispatched and got their result
Dispatched == {i \in PlanPositions : task_results[plan.tasks[i].id].status # "none"}

\* C16: a request whose plan needed no clarification ends with exactly one summary
\* event, the last event; its completed is the number of tasks whose result is
\* COMPLETED, its total the number of tasks of the plan, and its files_changed the
\* union of the files_changed of the results of the dispatched tasks.
C16_SummaryClosesRequest ==
    (RequestOver /\ MgrEventsOf("plan", 0) # {}) =>
        /\ SummaryPositions = {Len(mgr_events)}
        /\ \A k \in SummaryPositions :
              /\ mgr_events[k].completed =
                     Cardinality({i \in Dispatched :
                                     task_results[plan.tasks[i].id].status = "COMPLETED"})
              /\ mgr_events[k].total = Len(plan.tasks)
              /\ mgr_events[k].files_changed =
                     UNION {SetOf(task_results[plan.tasks[i].id].files_changed) :
                                i \in Dispatched}

\* the events the Manager yielded for attempt att of the task at plan position i
YieldedFor(i, att) ==
    SelectSeq(mgr_events, LAMBDA e : e.idx = i /\ e.attempt = att)

\* C17: for every Coder invocation the events the Manager yields for that attempt
\* are the Coder's events, as many and in the same order, each with task_id set to
\* the plan task's id and attempt to the attempt number, counted from 1; the Manager
\* yields no attempt event that is not the Coder's.
C17_EventsForwarded ==
    /\ \A k \in 1..Len(attempt_log) :
          LET a == attempt_log[k]
              yielded == YieldedFor(a.idx, a.attempt)
          IN  /\ a.attempt >= 1
              /\ Len(yielded) = Len(a.events)
              /\ \A n \in 1..Len(yielded) :
                    /\ yielded[n].type = a.events[n]
                    /\ yielded[n].task_id = plan.tasks[a.idx].id
    /\ \A m \in 1..Len(mgr_events) :
          mgr_events[m].attempt # 0 =>
              \E k \in 1..Len(attempt_log) :
                  /\ attempt_log[k].idx = mgr_events[m].idx
                  /\ attempt_log[k].attempt = mgr_events[m].attempt

\* a request that ended after a task's first attempt failed and its second succeeded,
\* the events of both attempts forwarded
C17_Witness ==
    /\ pc_mgr = "done"
    /\ \E k, l \in 1..Len(attempt_log) :
          /\ attempt_log[k].idx = attempt_log[l].idx
          /\ attempt_log[k].attempt = 1
          /\ attempt_log[l].attempt = 2
          /\ Len(YieldedFor(attempt_log[k].idx, 1)) = 2
          /\ Len(YieldedFor(attempt_log[l].idx, 2)) = 2

\* C18: a failing LLM call does not leave the run as an exception: whenever a run
\* has ended, it has returned, and an ended run that called the LLM has emitted
\* at least one event.
C18_LLMFailureHandled ==
    /\ pc_coder # "raised"
    /\ \A r \in 1..runs :
          (r < runs /\ run_llm_calls[r] > 0) => RunEvents(r) # <<>>

\* the (type, role, source) boundaries of an event sequence: its keys, a run of
\* consecutive equal keys counted once
RECURSIVE Boundaries(_)
Boundaries(evs) ==
    IF evs = <<>> THEN <<>>
    ELSE LET rest == Boundaries(Tail(evs))
         IN  IF rest # <<>> /\ rest[1] = KeyOf(Head(evs)) THEN rest
             ELSE <<KeyOf(Head(evs))>> \o rest

\* C19: the aggregated transcript has the same sequence of (type, role, source)
\* boundaries as the raw log.
C19_SameBoundaries == Boundaries(get_transcript) = Boundaries(log_file)

\* C20: in file order the ts values of a transcript are weakly increasing: any two
\* of them are values of one representation, and the earlier line's is not the later.
C20_TsWeaklyIncreasing ==
    \A i, j \in 1..Len(log_file) :
        i < j =>
            /\ log_file[i].ts.repr = log_file[j].ts.repr
            /\ log_file[i].ts.t <= log_file[j].ts.t

\* the events of the transcript that are user or assistant events, in file order
UserAssistantEvents(evs) == SelectSeq(evs, LAMBDA e : e.type \in {"user", "assistant"})

\* the last n elements of a sequence, all of them when it has fewer
LastN(seq, n) == IF Len(seq) <= n THEN seq ELSE SubSeq(seq, Len(seq) - n + 1, Len(seq))

\* C21: a session created on an existing transcript has as history exactly the most
\* recent, at most six, user/assistant events of the transcript, in file order.
C21_HistorySeed ==
    pc_seed = "created" =>
        LET recent == LastN(UserAssistantEvents(seed_file), max_events)
        IN  /\ Len(session_history) = Len(recent)
            /\ \A i \in 1..Len(recent) :
                  session_history[i].content = DecodedEvent(recent[i]).content

\* C22: the welcome + cwd pair is sent and recorded at most once for a session over
\* all its connections, and never for a session created on a non-empty transcript.
C22_WelcomeOnce ==
    /\ welcome_pairs <= 1
    /\ welcome_sent => welcome_pairs = 0

\* the request the pending slot found by message n belongs to
RequestOf(n) ==
    CHOOSE r \in 0..(n - 1) :
        /\ r = 0 \/ orch_log[r].found = "none"
        /\ \A m \in (r + 1)..(n - 1) : orch_log[m].found # "none"

\* C23: while a clarification is pending, a message that is neither a detail request
\* nor a replace phrase restarts planning with the original request followed by the
\* clarification answers so far, this message the last of them, and is not
\* dispatched to the coding agent as a new request.
C23_ClarificationResumes ==
    \A n \in 1..Len(orch_log) :
        (orch_log[n].found = "clarify" /\ orch_log[n].kind \notin {"detail", "replace"}) =>
            /\ orch_log[n].plan_input.suffix = "clarifications"
            /\ orch_log[n].plan_input.request = RequestOf(n)
            /\ orch_log[n].plan_input.answers # <<>>
            /\ orch_log[n].plan_input.answers[Len(orch_log[n].plan_input.answers)] = n
            /\ orch_log[n].dispatched # "raw"

\* C24: when a clarification or a plan is pending, a message that matches a replace
\* phrase clears the pending state and is processed as a new request: the planner is
\* asked about this message alone.
C24_ReplaceClearsPending ==
    \A n \in 1..Len(orch_log) :
        (orch_log[n].found # "none" /\ orch_log[n].kind = "replace") =>
            orch_log[n].plan_input = PlanInput(n, "", <<>>)

RECURSIVE Concat(_)
Concat(evs) == IF evs = <<>> THEN <<>> ELSE Head(evs).content \o Concat(Tail(evs))

\* the events that carry file content
ChunksSent == SelectSeq(detail_events, LAMBDA e : e.kind = "chunk")

\* whether the round streamed the file: the header was sent
Streamed == \E i \in 1..Len(detail_events) : detail_events[i].kind = "header"

\* C25: a detail request streams file content only for a path that is the session
\* cwd or lies below it, and then as detail events of at most 1,200 characters each
\* whose contents, in order, make up the file's content; no planner or agent call.
C25_DetailConfinedAndChunked ==
    detail_pc = "done" =>
        /\ detail_calls = 0
        /\ Streamed => IsWithin(abspath_join(detail_cwd, detail_hint), detail_cwd)
        /\ ~Streamed => ChunksSent = <<>>
        /\ Streamed =>
              /\ \A i \in 1..Len(ChunksSent) : Len(ChunksSent[i].content) <= chunk_size
              /\ Concat(ChunksSent) = detail_file

\* a finished run of two LLM responses, the first requesting tools and the second
\* plain text without a <result> block: the text's assistant event ends the stream
ToolThenText ==
    /\ pc_coder = "done"
    /\ runs > 0
    /\ run_llm_calls[runs] = 2
    /\ events # <<>>
    /\ events[Len(events)].type = "assistant"

\* C26: a run whose first response requests a tool and whose second response is
\* plain text emits at least one event of type "tool", and its last assistant
\* event is the one of the second response.
C26_ToolEventEmitted ==
    ToolThenText =>
        /\ \E i \in 1..Len(events) : events[i].type = "tool"
        /\ \A i \in 1..Len(events) :
               events[i].type \in {"tool_call", "tool_result"} => i < Len(events)

\* the positions at which a sentence of the text ends
SentenceEnds(text) == {i \in 1..Len(text) : text[i] \in {".", "?"}}

\* the position of the k-th sentence end of the text, 0 when there are fewer
SentenceEnd(text, k) ==
    LET ends == SentenceEnds(text)
    IN  IF Cardinality(ends) < k THEN 0
        ELSE CHOOSE i \in ends : Cardinality({j \in ends : j <= i}) = k

\* C27: every summary the summarizer returns starts with "I did", contains
\* "I learned", and has a third sentence that contains "Next" and ends with a
\* question mark.
C27_SummaryShape ==
    sum_pc = "returned" =>
        /\ summary # <<>>
        /\ summary[1] = "I did"
        /\ \E i \in 1..Len(summary) : summary[i] = "I learned"
        /\ LET second == SentenceEnd(summary, 2)
               third == SentenceEnd(summary, 3)
           IN  /\ third # 0
               /\ summary[third] = "?"
               /\ \E i \in (second + 1)..third : summary[i] = "Next"

\* the events of the plan's tasks: task_start, forwarded Coder events, task_complete,
\* task_failed and the blocked notice, each carrying its task's plan position
TaskEvents == {i \in 1..Len(mgr_events) : mgr_events[i].idx # 0}

\* C28: the Manager's events of one request are in causal order: the manager status
\* event first; the plan event before every task event; a task's task_start before
\* its forwarded Coder events and these before its task_complete or task_failed;
\* the tasks' blocks one after the other in plan order; nothing after the summary.
C28_CausalOrder ==
    /\ mgr_events # <<>> => mgr_events[1].type = "manager"
    /\ \A i \in 2..Len(mgr_events) : mgr_events[i].type # "manager"
    /\ \A i \in TaskEvents : \E j \in 1..(i - 1) : mgr_events[j].type = "plan"
    /\ \A i \in TaskEvents :
          mgr_events[i].attempt # 0 =>
              \E j \in 1..(i - 1) : /\ mgr_events[j].type = "task_start"
                                    /\ mgr_events[j].idx = mgr_events[i].idx
    /\ \A i, j \in TaskEvents :
          (mgr_events[i].idx = mgr_events[j].idx /\ i # j) =>
              /\ mgr_events[i].type = "task_start" => i < j
              /\ mgr_events[i].type \in {"task_complete", "task_failed"} => j < i
    /\ \A i, j \in TaskEvents : i < j => mgr_events[i].idx <= mgr_events[j].idx
    /\ \A i \in 1..Len(mgr_events) : mgr_events[i].type = "summary" => i = Len(mgr_events)

\* a finished request with two dispatched tasks, the first retried, and the summary
C28_Witness ==
    /\ pc_mgr = "done"
    /\ Len(plan.tasks) = 2
    /\ mgr_events[Len(mgr_events)].type = "summary"
    /\ \E i \in TaskEvents : mgr_events[i].idx = 1 /\ mgr_events[i].attempt = 2
    /\ \E i \in TaskEvents : mgr_events[i].idx = 2 /\ mgr_events[i].type = "task_complete"

\* the state the tool loop is in after the call that was executing
AfterTool(calls_left, remaining) ==
    IF calls_left # <<>> THEN "tools" ELSE IF remaining > 0 THEN "llm" ELSE "done"

\* C29: a tool that exits non-zero, times out or raises does not end the run: the
\* Coder emits the tool_result of that call with success false and goes on with
\* the remaining calls of the response, or, after the last one, with the next step
\* (the run ending there only when the step budget is used up).
C29_ToolFailureContinues ==
    [][(pc_coder = "exec" /\ pc_coder' # "exec" /\ tool_outcome' \in {"nonzero", "raise"}) =>
          /\ Len(events') > Len(events)
          /\ events'[Len(events) + 1].type = "tool_result"
          /\ events'[Len(events) + 1].call_id = cur_call
          /\ events'[Len(events) + 1].success = "false"
          /\ tool_calls' = Tail(tool_calls)
          /\ pc_coder' = AfterTool(tool_calls', steps_remaining')
          /\ steps_remaining' >= steps_remaining - 1
          /\ (pc_coder' = "done") = (steps_remaining' = 0)]_vars

\* a run in which a failed call was followed by the next call of the same response
\* and a raising call by the next response
C29_Witness ==
    /\ \E i \in 1..(Len(events) - 1) :
          /\ events[i].type = "tool_result" /\ events[i].success = "false"
          /\ events[i + 1].type = "tool_call"
    /\ \E i \in 1..(Len(events) - 1) :
          /\ events[i].type = "tool_result" /\ events[i].error
          /\ events[i + 1].type = "assistant"

\* the tool_call events of run r, in order
RunToolCalls(r) == SelectSeq(events, LAMBDA e : e.run = r /\ e.type = "tool_call")

\* C30: in a run with task id T the n-th tool call of the run, counted from 1 over
\* the whole run, has call_id T_call_n; so the call_ids of a run start with its
\* task id and are pairwise distinct.
C30_GeneratedCallIds ==
    \A r \in 1..runs :
        LET calls == RunToolCalls(r)
        IN  /\ \A n \in 1..Len(calls) :
                  calls[n].call_id = GeneratedCallId(calls[n].task_id, n)
            /\ \A m, n \in 1..Len(calls) : calls[m].call_id = calls[n].call_id => m = n

\* the tool_result events of the current run, in order
RunToolResults == SelectSeq(events, LAMBDA e : e.run = runs /\ e.type = "tool_result")

\* the messages of the current run's message list that report a tool's outcome
OutcomeMessages == SelectSeq(messages, LAMBDA m : m.kind \in {"tool_result", "tool_error"})

\* C31: in the message list sent to the LLM the outcome of every executed tool
\* call, success or failure, is a tool-role message carrying that call's id when
\* supports_tool_call_messages is true, and a system-role message when it is
\* false; so with the flag true every assistant message with tool_calls is followed
\* by one tool-role message per call before the next LLM call.
C31_ToolOutcomeMessages ==
    runs > 0 =>
        /\ Len(OutcomeMessages) = Len(RunToolResults)
        /\ \A n \in 1..Len(OutcomeMessages) :
              IF supports_tool_call_messages
              THEN /\ OutcomeMessages[n].role = "tool"
                   /\ RunToolResults[n].call_id.kind # "gen" =>
                          OutcomeMessages[n].call_id = RunToolResults[n].call_id
              ELSE OutcomeMessages[n].role = "system"

\* the entries of session.history that a run adds after the user prompt
HistoryAdded == SelectSeq(history, LAMBDA m : m.role # "user")

\* the emitted events that the history is to follow: assistant content and the
\* outcomes of the executed tool calls
HistoryEvents == SelectSeq(events, LAMBDA e : e.type \in {"assistant", "tool_result"})

\* C32: a Coder run changes session.history only by appending: the user prompt,
\* then, in emission order, one assistant entry per non-empty assistant content and
\* one system tool-result entry per executed tool call, succeeded or raised;
\* earlier entries are never modified, removed or reordered.
C32_HistoryAppendOnly ==
    [][/\ Len(history') >= Len(history)
       /\ SubSeq(history', 1, Len(history)) = history
       /\ Len(SelectSeq(history', LAMBDA m : m.role = "user")) = runs'
       /\ Len(HistoryAdded') = Len(HistoryEvents')
       /\ \A n \in 1..Len(HistoryAdded') :
             IF HistoryEvents'[n].type = "assistant"
             THEN HistoryAdded'[n].role = "assistant"
             ELSE HistoryAdded'[n].role = "system" /\ HistoryAdded'[n].kind = "tool_result"]_vars

\* one sequence is the other, or the other with one element appended
SameOrOneMore(before, after) ==
    \/ after = before
    \/ Len(after) = Len(before) + 1 /\ SubSeq(after, 1, Len(before)) = before

\* the events in a file that were recorded for the session, in file order
FileEventsOf(p, sid) == SelectSeq(files[p], LAMBDA e : e.sid = sid)

\* the in-memory list of every live session holds the events of its file that were
\* recorded for it, in the file's order
MirrorFollowsFile ==
    \A sid \in sessions : transcripts[sid] = FileEventsOf(transcript_paths[sid], sid)

PreconditionViolated(o, dirs) ==
    \/ /\ o.op = "create_branch"
       /\ \/ <<o.project, o.source>> \notin dirs
          \/ <<o.project, o.branch>> \in dirs
    \/ /\ o.op \in {"merge_branch_into_main", "sync_branch_from_main"}
       /\ \/ o.branch = "main"
          \/ <<o.project, "main">> \notin dirs
          \/ <<o.project, o.branch>> \notin dirs

\* C34: create_branch, merge_branch_into_main and sync_branch_from_main called with
\* a precondition violated (source or main branch missing, destination existing,
\* the branch being main) fail with an error and leave the project directories and
\* the session registry as they were.
C34_BranchOpsFailCleanly ==
    [][PreconditionViolated(proj_last', proj_dirs) =>
          /\ proj_last'.result = "error"
          /\ proj_dirs' = proj_dirs
          /\ proj_changed' = proj_changed
          /\ proj_registry' = proj_registry]_vars

\* main merged into itself was refused while the project has a second branch and a
\* live session
C34_Witness ==
    /\ proj_last.op = "merge_branch_into_main"
    /\ proj_last.branch = "main"
    /\ proj_last.result = "error"
    /\ <<proj_last.project, "main">> \in proj_dirs
    /\ <<proj_last.project, "b1">> \in proj_dirs
    /\ proj_registry # <<>>

\* the response cannot be parsed into a plan: it has no <plan> block, or parsing
\* the block fails
Unparseable(response) == ~response.plan_block \/ ParseRaises(response)

\* C35: when the planner's response cannot be parsed into a plan, decompose_intent
\* returns a fallback plan of exactly one task whose description is the user text,
\* with confidence 0.5 and no clarification question.
C35_FallbackPlan ==
    (pc_plan # "call" /\ Unparseable(planner_response)) =>
        /\ pc_plan = "returned"
        /\ Len(returned_plan.tasks) = 1
        /\ returned_plan.tasks[1].description = user_text
        /\ returned_plan.confidence = "0.5"
        /\ ~returned_plan.needs_clarification

\* the attempts whose Coder run gave no <result> block: the run's events hold no
\* result event
WithoutResultBlock == {k \in 1..Len(attempt_log) :
                           /\ attempt_log[k].status # "raised"
                           /\ ~InSeq("result", attempt_log[k].events)}

\* C36: an attempt that ends without a <result> block gets a FAILED result; so an
\* attempt whose run ended with the step-limit error event or gave no assistant
\* output is never counted as COMPLETED and never leads to task_complete.
C36_NoResultMeansFailed ==
    \A k \in WithoutResultBlock :
        /\ attempt_log[k].status = "FAILED"
        /\ \A i \in 1..Len(mgr_events) :
               (mgr_events[i].type = "task_complete" /\ mgr_events[i].idx = attempt_log[k].idx)
                   => \E m \in 1..Len(attempt_log) :
                          /\ attempt_log[m].idx = attempt_log[k].idx
                          /\ InSeq("result", attempt_log[m].events)

\* C37: no two live sessions write to the same transcript file: distinct live
\* session ids have distinct transcript paths, two sessions attached to the same
\* branch directory included, so the events of one session never appear in the
\* transcript file of another.
C37_DistinctTranscriptPaths ==
    \A s \in sessions, t \in sessions :
        s # t =>
            /\ transcript_paths[s] # transcript_paths[t]
            /\ \A i \in 1..Len(files[transcript_paths[s]]) :
                   files[transcript_paths[s]][i].sid # t

\* the rounds of the receive loop that neither sent an event nor dispatched anything
SilentRounds ==
    {i \in 1..Len(orch_log) : orch_log[i].events_sent = 0 /\ orch_log[i].dispatched = "none"}

\* C38: every user message that is not a detail request produces at least one
\* outbound event or a dispatch to the coding agent, whatever is pending; a round of
\* the receive loop is one step, so the message's outcome is in the log as soon as
\* the message is counted as received.
C38_MessageNeverSilent ==
    /\ Len(orch_log) = received
    /\ \A i \in SilentRounds : orch_log[i].kind = "detail"

\* C39: a plan that process_request goes on to execute (its "plan" event was
\* emitted, no clarification asked) holds at least one task, and no summary
\* reports a total of 0 tasks.
C39_ExecutedPlanHasTasks ==
    /\ InSeq("plan", [i \in 1..Len(mgr_events) |-> mgr_events[i].type]) => Len(plan.tasks) >= 1
    /\ \A i \in 1..Len(mgr_events) : mgr_events[i].type = "summary" => mgr_events[i].total >= 1

\* the directory a successful delete_project or delete_branch removed
DeletedDir(o) == IF o.op = "delete_project" THEN <<o.project>> ELSE <<o.project, o.branch>>

DeleteSucceeded(o) == o.op \in {"delete_project", "delete_branch"} /\ o.result = "true"

\* C40: when delete_project or delete_branch returns true, no session left in the
\* registry has its cwd inside the deleted directory, the directory is gone, and
\* the sessions whose cwd is outside it are still registered with the same cwd.
C40_DeleteKillsSessionsInside ==
    [][ (DeleteSucceeded(proj_last') /\ proj_dirs' # proj_dirs) =>
          LET dir == DeletedDir(proj_last')
          IN  /\ \A d \in proj_dirs' : ~is_relative_to(d, dir)
              /\ \A sid \in DOMAIN proj_registry' :
                     /\ ~is_relative_to(proj_registry'[sid], dir)
                     /\ sid \in DOMAIN proj_registry
                     /\ proj_registry'[sid] = proj_registry[sid]
              /\ \A sid \in DOMAIN proj_registry :
                     ~is_relative_to(proj_registry[sid], dir) => sid \in DOMAIN proj_registry' ]_vars

\* a branch was deleted under a session working below it, while a session on
\* another branch of the same project stays registered
C40_Witness ==
    /\ proj_last.op = "delete_branch" /\ proj_last.result = "true"
    /\ \E sid \in DOMAIN proj_registry : proj_registry[sid][1] = proj_last.project
    /\ \E sid \in proj_issued : sid \notin DOMAIN proj_registry
    /\ \A d \in proj_dirs : d[1] = proj_last.project

====
